---- MODULE Spec2Model ----
(***************************************************************************)
(* Model of the message reconciliation and latency aggregation logic of    *)
(* src/components/chat/ChatWindow.tsx: the dataReceived handler, the       *)
(* remote track handlers, and the filteredMessages / sortedMessages        *)
(* derivations; of the connection provider of src/hooks/useConnection.tsx, *)
(* the microphone state of src/hooks/useMediaDevices.ts and the job        *)
(* endpoint with its client (pages/api/livekit/job, livekitJobClient.ts).  *)
(*                                                                         *)
(* Conventions                                                             *)
(*   - a text is a sequence of tokens (words and the blank " ");           *)
(*   - an optional number is <<>> (undefined) or <<n>>;                    *)
(*   - an optional conversation id is "" (undefined / falsy) or a string;  *)
(*   - an optional timestamp is 0 (absent / falsy) or a positive number.   *)
(***************************************************************************)
EXTENDS Integers, Sequences, FiniteSets, TLC

VARIABLES
    messages,               \* useState<ChatMessage[]>: the turn collection
    pipelineMetricsRef,     \* Map<string, PipelineMetrics>, in insertion order
    lastUserSpeechTimeRef,  \* number | null (0 = null)
    agentResponseStartRef,  \* number | null (0 = null)
    trackPublishTimesRef,   \* Map<trackSid, number> (0 = no entry)
    now,                    \* Date.now()
    rnd,                    \* source of the Math.random() id suffixes
    pending,                \* setMessages updaters queued and not yet run
    dirty,                  \* a queued updater returned a new array
    sortedMessages,         \* the memoised presentation output of the last render
    log,                    \* the payloads and track notifications delivered so far
    hist,                   \* the updaters run so far, with the collection around each
    env,                    \* process.env
    connectionDetails,      \* useState of ConnectionProvider
    connectClosure,         \* shouldConnect and mode as the current `connect` callback sees them
    tokenRequests,          \* connect calls awaiting fetch('/api/token')
    connectLog,             \* the connect / disconnect calls made so far and what each did
    isMicEnabled,           \* useState of useMediaDevices
    toggleClosure,          \* isMicEnabled as the current `toggleMicrophone` callback sees it
    participantMic,         \* localParticipant.isMicrophoneEnabled
    micRequests,            \* toggles awaiting setMicrophoneEnabled
    micLog,                 \* the toggles made so far and what each did
    job                     \* one job submission, from the client call to its result

chatVars == <<messages, pipelineMetricsRef, lastUserSpeechTimeRef,
              agentResponseStartRef, trackPublishTimesRef, now, rnd, pending,
              dirty, sortedMessages, log, hist>>

connVars == <<connectionDetails, connectClosure, tokenRequests, connectLog>>

micVars == <<isMicEnabled, toggleClosure, participantMic, micRequests, micLog>>

vars == <<chatVars, env, connVars, micVars, job>>

(***************************************************************************)
(* Bounds                                                                  *)
(***************************************************************************)
MaxEvents == 3
MaxPending == 2

(***************************************************************************)
(* Program constants                                                       *)
(***************************************************************************)
UserDupWindowMs == 2000
UserDupLookback == 3
ReplyDupWindowMs == 2000
SpeechWindowMs == 5000
MetricsWindowMs == 10000
MetricsLookback == 3
FilterWindowMs == 3000
FilterLookback == 10
SortWindowMs == 1000

(***************************************************************************)
(* Generic helpers                                                         *)
(***************************************************************************)
Abs(x) == IF x < 0 THEN -x ELSE x

\* Array.prototype.reverse (the caller decides whether it is in place)
Reverse(s) == [i \in 1..Len(s) |-> s[Len(s) + 1 - i]]

\* Array.prototype.slice(0, n)
Slice0(s, n) == SubSeq(s, 1, IF Len(s) < n THEN Len(s) ELSE n)

\* Array.prototype.find: hits is the set of indexes whose element satisfies the
\* callback; the result is the first of them, 0 when there is none
FindIdx(hits) ==
    IF hits = {} THEN 0 ELSE CHOOSE i \in hits : \A j \in hits : i <= j

\* optional numbers
Undef == <<>>
Num(n) == <<n>>
Truthy(x) == x # <<>> /\ x[1] # 0
\* a || b on optional numbers
Or(a, b) == IF Truthy(a) THEN a ELSE b
\* a || 0
OrZero(a) == IF Truthy(a) THEN a[1] ELSE 0

(***************************************************************************)
(* Text: String.prototype.trim / toLowerCase / includes                    *)
(***************************************************************************)
Blank == " "
Hourglass == "HOURGLASS"
PlaceholderPhrase == "Agent javob bermoqda"

RECURSIVE TrimLeft(_)
TrimLeft(t) == IF t # <<>> /\ Head(t) = Blank THEN TrimLeft(Tail(t)) ELSE t

Trim(t) == Reverse(TrimLeft(Reverse(TrimLeft(t))))

LowerTok(w) ==
    CASE w = "Salom" -> "salom"
      [] w = "X" -> "x"
      [] w = "Y" -> "y"
      [] w = "Agent javob bermoqda" -> "agent javob bermoqda"
      [] w = "Agent javob berdi" -> "agent javob berdi"
      [] OTHER -> w

ToLowerCase(t) == [i \in 1..Len(t) |-> LowerTok(t[i])]

Includes(t, w) == \E i \in 1..Len(t) : t[i] = w

Normalize(t) == ToLowerCase(Trim(t))

(***************************************************************************)
(* ChatMessage, LatencyMetrics, PipelineMetrics (ChatWindow.tsx 7-34)      *)
(***************************************************************************)
LatencyFields == {"vad", "stt", "llm", "tts", "total",
                  "userSpeechDuration", "agentResponseDuration"}

NoLatency == [f \in LatencyFields |-> Undef]

\* { ...base, k1: v1, k2: v2, ... } with the overriding keys given as a function
Spread(base, over) ==
    [f \in LatencyFields |-> IF f \in DOMAIN over THEN over[f] ELSE base[f]]

ChatMessage(id, type, text, timestamp, latency, conversationId) ==
    [id |-> id, type |-> type, text |-> text, timestamp |-> timestamp,
     latency |-> latency, conversationId |-> conversationId]

PipelineMetrics(vad, stt, llm, tts, total, conversationId, createdAt) ==
    [vad |-> vad, stt |-> stt, llm |-> llm, tts |-> tts, total |-> total,
     conversationId |-> conversationId, createdAt |-> createdAt]

NoMetrics == PipelineMetrics(0, 0, 0, 0, 0, "", 0)

\* `user-${Date.now()}-${random}`, `agent-reply-${Date.now()}-${random}`, `agent-${Date.now()}`
MessageId(prefix, t, r) == <<prefix, t, r>>

\* the text of the turn the track-subscribed handler adds
SubscribedText == <<"SPEAKER", Blank, "Agent javob berdi">>

(***************************************************************************)
(* The decoded payload of a data-channel message                           *)
(***************************************************************************)
Payload(type, text, timestamp, conversation_id, latency) ==
    [type |-> type, text |-> text, timestamp |-> timestamp,
     conversation_id |-> conversation_id, latency |-> latency,
     hasItem |-> FALSE, itemRole |-> "", role |-> "", content |-> <<>>,
     nested |-> FALSE, vad |-> Undef, stt |-> Undef, llm |-> Undef,
     tts |-> Undef, total |-> Undef, created_at |-> 0,
     trackSid |-> "", kind |-> "", isLocal |-> FALSE, dt |-> 0]

\* Array.from(pipelineMetricsRef.current.values()).pop()?.conversationId
LatestConversationId(ref) ==
    IF ref = <<>> THEN "" ELSE ref[Len(ref)].conversationId

\* a table that holds the latest record only
MapSetLatestOnly(ref, m) == <<m>>

\* pipelineMetricsRef.current.set(key, value): a Map keeps the position of a key it holds
MapSet(ref, m) ==
    IF \E i \in 1..Len(ref) : ref[i].conversationId = m.conversationId
    THEN [i \in 1..Len(ref) |->
            IF ref[i].conversationId = m.conversationId THEN m ELSE ref[i]]
    ELSE Append(ref, m)

\* data.timestamp || fallback
TimestampOr(data, fallback) ==
    IF data.timestamp # 0 THEN data.timestamp ELSE fallback

(***************************************************************************)
(* The setMessages updaters.  Each takes the array React passes as `prev`  *)
(* and yields [msgs, changed]: the content of the state array afterwards   *)
(* and whether the updater returned a new array.  prev.reverse() reverses  *)
(* the state array in place, so an updater that returns prev itself after  *)
(* one reverse() leaves the state reversed without a new array.            *)
(***************************************************************************)
Result(msgs, changed) == [msgs |-> msgs, changed |-> changed]

\* the window test written with the comparison inverted
IsRecentDuplicateInverted(m, speechText, ts) ==
    /\ ToLowerCase(Trim(m.text)) = ToLowerCase(speechText)
    /\ Abs(ts - m.timestamp) > UserDupWindowMs

\* the find callback of recentDuplicate (lines 197-201)
IsRecentDuplicate(m, speechText, ts) ==
    /\ ToLowerCase(Trim(m.text)) = ToLowerCase(speechText)
    /\ Abs(ts - m.timestamp) < UserDupWindowMs

\* lines 191-220; u.text is speechText, u.conversationId was read by the handler
UserSpeechUpdater(prev, u, t, r) ==
    LET ts == TimestampOr(u.data, t)
        users == SelectSeq(prev, LAMBDA m : m.type = "user")
        recent == Slice0(Reverse(users), UserDupLookback)
        recentDuplicate == FindIdx({i \in DOMAIN recent : IsRecentDuplicate(recent[i], u.text, ts)})
    IN  IF recentDuplicate # 0
        THEN Result(prev, FALSE)
        ELSE Result(Append(prev,
                ChatMessage(MessageId("user", t, r), "user", u.text, ts,
                    Spread(NoLatency,
                        [vad |-> u.data.latency.vad,
                         stt |-> u.data.latency.stt,
                         userSpeechDuration |->
                             Num(OrZero(u.data.latency.userSpeechDuration))]),
                    u.conversationId)), TRUE)

\* latestMetrics?.conversationId || data.conversation_id || undefined (lines 257-258, 370-371)
ResolveConversationId(ref, data) ==
    IF LatestConversationId(ref) # "" THEN LatestConversationId(ref)
    ELSE data.conversation_id

\* the latency an agent_reply / agent_speech event merges into a turn (lines 290-296, 395-401)
MergeEventLatency(old, lat) ==
    Spread(old,
        [llm |-> Or(lat.llm, old.llm),
         tts |-> Or(lat.tts, old.tts),
         agentResponseDuration |-> Or(lat.agentResponseDuration, old.agentResponseDuration),
         total |-> Or(lat.total, old.total)])

\* the agent turn an agent_reply event creates (lines 320-332, 344-356)
NewAgentReply(u, t, r, conversationId) ==
    ChatMessage(MessageId("agent-reply", t, r), "agent", u.text,
        TimestampOr(u.data, t),
        Spread(NoLatency,
            [llm |-> u.data.latency.llm,
             tts |-> u.data.latency.tts,
             agentResponseDuration |-> u.data.latency.agentResponseDuration,
             total |-> u.data.latency.total]),
        conversationId)

\* the duplicate test without the text comparison
SameReplyTextAny(a, b) == TRUE

\* msg.text.trim().toLowerCase() === replyText.trim().toLowerCase() (line 273)
SameReplyText(a, b) == ToLowerCase(Trim(a)) = ToLowerCase(Trim(b))

\* a merge that takes the text of the event as well
MergeReplyWithText(m, u, ts) ==
    [m EXCEPT !.text = u.text,
              !.timestamp = ts,
              !.latency = MergeEventLatency(@, u.data.latency)]

\* the turn an agent_reply is merged into, after the merge (lines 287-297)
MergeReply(m, u, ts) ==
    [m EXCEPT !.timestamp = ts,
              !.latency = MergeEventLatency(@, u.data.latency)]

\* lines 255-357; u.text is replyText
AgentReplyUpdater(prev, u, t, r, ref) ==
    LET conversationId == ResolveConversationId(ref, u.data)
        ts == TimestampOr(u.data, t)
        reversed == Reverse(prev)
        SameConvAndText(m) == /\ m.type = "agent"
                              /\ m.conversationId = conversationId
                              /\ SameReplyText(m.text, u.text)
        existing == FindIdx({i \in DOMAIN reversed : SameConvAndText(reversed[i])})
    IN  IF u.text = <<>> THEN Result(prev, FALSE)
        ELSE IF /\ conversationId # ""
                /\ existing # 0
                /\ Abs(ts - reversed[existing].timestamp) < ReplyDupWindowMs
        THEN \* prev.map over the array that reverse() left reversed
             Result([i \in 1..Len(reversed) |->
                        IF reversed[i].id = reversed[existing].id
                        THEN MergeReply(reversed[i], u, ts)
                        ELSE reversed[i]], TRUE)
        ELSE \* with a conversation id the second reverse() restores the order
             Result(Append(prev, NewAgentReply(u, t, r, conversationId)), TRUE)

\* a refinement that keeps the reply text
RefineKeepText(m, u) ==
    [m EXCEPT !.timestamp = TimestampOr(u.data, m.timestamp),
              !.latency = MergeEventLatency(@, u.data.latency)]

\* the turn an agent_speech event refines (lines 391-402, 419-430)
Refine(m, u) ==
    [m EXCEPT !.text = u.text,
              !.timestamp = TimestampOr(u.data, m.timestamp),
              !.latency = MergeEventLatency(@, u.data.latency)]

\* lines 368-441; u.text is speechText, never empty here
AgentSpeechUpdater(prev, u, t, ref) ==
    LET conversationId == ResolveConversationId(ref, u.data)
        ts == TimestampOr(u.data, t)
        reversed == Reverse(prev)
        existing == FindIdx({i \in DOMAIN reversed :
                        /\ reversed[i].type = "agent"
                        /\ reversed[i].conversationId = conversationId})
        agents == Reverse(SelectSeq(prev, LAMBDA m : m.type = "agent"))
    IN  IF conversationId # ""
        THEN IF existing # 0 /\ Abs(ts - reversed[existing].timestamp) < SpeechWindowMs
             THEN Result([i \in 1..Len(reversed) |->
                            IF reversed[i].id = reversed[existing].id
                            THEN Refine(reversed[i], u) ELSE reversed[i]], TRUE)
             ELSE \* return prev: the same array, reversed in place
                  Result(reversed, FALSE)
        ELSE IF agents # <<>> /\ Abs(ts - agents[1].timestamp) < SpeechWindowMs
             THEN Result([i \in 1..Len(prev) |->
                            IF prev[i].id = agents[1].id
                            THEN Refine(prev[i], u) ELSE prev[i]], TRUE)
             ELSE Result(prev, FALSE)

\* the merge with >= in place of >
MergeStageNonStrict(new, old) == IF new >= 0 THEN Num(new) ELSE Num(OrZero(old))

\* one stage of the metrics merge (lines 502-506, 542-546)
MergeStage(new, old) == IF new > 0 THEN Num(new) ELSE Num(OrZero(old))

MergeMetricsLatency(old, metrics) ==
    Spread(old,
        [vad |-> MergeStage(metrics.vad, old.vad),
         stt |-> MergeStage(metrics.stt, old.stt),
         llm |-> MergeStage(metrics.llm, old.llm),
         tts |-> MergeStage(metrics.tts, old.tts),
         total |-> MergeStage(metrics.total, old.total)])

\* the merge without the conversation id test: every turn takes the metrics
MetricsUpdaterAllTurns(prev, u) ==
    Result([i \in 1..Len(prev) |->
               [prev[i] EXCEPT !.latency = MergeMetricsLatency(@, u.metrics)]], TRUE)

\* the merge written with filter in place of map: unmatched turns are lost
MetricsUpdaterFiltering(prev, u) ==
    Result(SelectSeq([i \in 1..Len(prev) |->
                         [prev[i] EXCEPT !.latency = MergeMetricsLatency(@, u.metrics)]],
                     LAMBDA m : m.conversationId = u.metrics.conversationId), TRUE)

\* lines 494-559; u.metrics is the record the handler stored
MetricsUpdater(prev, u) ==
    LET metrics == u.metrics
        updated == [i \in 1..Len(prev) |->
                      IF prev[i].conversationId = metrics.conversationId
                      THEN [prev[i] EXCEPT !.latency = MergeMetricsLatency(@, metrics)]
                      ELSE prev[i]]
        hasMatchingMessage ==
            \E i \in 1..Len(prev) : prev[i].conversationId = metrics.conversationId
        recentAgentMessages ==
            Slice0(Reverse(SelectSeq(updated, LAMBDA m : m.type = "agent")),
                   MetricsLookback)
        matching == FindIdx({i \in DOMAIN recentAgentMessages :
                        Abs(metrics.createdAt - recentAgentMessages[i].timestamp)
                            < MetricsWindowMs})
    IN  IF ~hasMatchingMessage /\ matching # 0
        THEN Result([i \in 1..Len(updated) |->
                        IF updated[i].id = recentAgentMessages[matching].id
                        THEN [updated[i] EXCEPT
                                 !.conversationId = metrics.conversationId,
                                 !.latency = MergeMetricsLatency(@, metrics)]
                        ELSE updated[i]], TRUE)
        ELSE Result(updated, TRUE)

\* lines 601-608; u.delay is responseDelay
TrackPublishedUpdater(prev, u) ==
    LET reversed == Reverse(prev)
        lastUser == FindIdx({i \in DOMAIN reversed : reversed[i].type = "user"})
        updated == IF lastUser = 0 THEN reversed
                   ELSE [reversed EXCEPT ![lastUser].latency.total = Num(u.delay)]
    IN  Result(Reverse(updated), TRUE)

\* lines 634-643; u.delay is subscribeTime, the refs and Date.now() are read when it runs
TrackSubscribedUpdater(prev, u, t, lastUserSpeech, agentResponseStart) ==
    Result(Append(prev,
        ChatMessage(MessageId("agent", t, 0), "agent", SubscribedText, t,
            Spread(NoLatency,
                [total |-> IF lastUserSpeech # 0
                           THEN Num(u.delay - lastUserSpeech) ELSE Undef,
                 agentResponseDuration |->
                           IF agentResponseStart # 0
                           THEN Num(u.delay - agentResponseStart) ELSE Undef]),
            "")), TRUE)

(***************************************************************************)
(* Presentation: filteredMessages (lines 50-103), sortedMessages (108-140) *)
(***************************************************************************)
\* the placeholder test by equality instead of includes()
IsPlaceholderExact(t) == t = <<Hourglass>> \/ t = <<PlaceholderPhrase>>

\* lines 59-62
IsPlaceholder(t) == Includes(t, Hourglass) \/ Includes(t, PlaceholderPhrase)

\* seenConversationPairs.set(key, value)
PairSet(seen, key, value) ==
    [k \in DOMAIN seen \cup {key} |-> IF k = key THEN value ELSE seen[k]]

\* a pairing test that looks at the conversation id only
RepeatsPairAnyText(lastAgentText, normalizedText) == lastAgentText # <<"undefined">>

\* lastAgentText === normalizedText (line 80)
RepeatsPair(lastAgentText, normalizedText) == lastAgentText = normalizedText

\* the for loop of filteredMessages from msgs[i] on; filtered.reverse() is in place
RECURSIVE FilterLoop(_, _, _, _)
FilterLoop(msgs, i, filtered, seen) ==
    IF i > Len(msgs) THEN filtered
    ELSE LET msg == msgs[i]
             normalizedText == ToLowerCase(Trim(msg.text))
             reversed == Reverse(filtered)
             window == Slice0(reversed, FilterLookback)
             isDuplicate ==
                 \E j \in 1..Len(window) :
                     /\ window[j].type = msg.type
                     /\ ToLowerCase(Trim(window[j].text)) = normalizedText
                     /\ Abs(window[j].timestamp - msg.timestamp) < FilterWindowMs
             paired == ~isDuplicate /\ msg.type = "agent" /\ msg.conversationId # ""
             lastAgentText == IF msg.conversationId \in DOMAIN seen
                              THEN seen[msg.conversationId] ELSE <<"undefined">>
         IN  IF Trim(msg.text) = <<>> THEN FilterLoop(msgs, i + 1, filtered, seen)
             ELSE IF IsPlaceholder(msg.text) THEN FilterLoop(msgs, i + 1, filtered, seen)
             ELSE IF paired /\ RepeatsPair(lastAgentText, normalizedText)
                  THEN FilterLoop(msgs, i + 1, reversed, seen)
             ELSE FilterLoop(msgs, i + 1,
                      IF isDuplicate THEN reversed ELSE Append(reversed, msg),
                      IF paired THEN PairSet(seen, msg.conversationId, normalizedText)
                      ELSE seen)

FilteredMessages(msgs) == FilterLoop(msgs, 1, <<>>, <<>>)

\* a comparator without the tie-break
CompareByTime(a, b) == a.timestamp - b.timestamp

\* a comparator that sorts by time from a difference of 1000 ms on
CompareFromWindow(a, b) ==
    LET timeDiff == a.timestamp - b.timestamp
    IN  IF Abs(timeDiff) >= SortWindowMs THEN timeDiff
        ELSE IF a.type = "user" /\ b.type = "agent" THEN -1
        ELSE IF a.type = "agent" /\ b.type = "user" THEN 1
        ELSE timeDiff

\* the comparator of sortedMessages (lines 109-139)
Compare(a, b) ==
    LET timeDiff == a.timestamp - b.timestamp
    IN  IF Abs(timeDiff) > SortWindowMs THEN timeDiff
        ELSE IF a.type = "user" /\ b.type = "agent" THEN -1
        ELSE IF a.type = "agent" /\ b.type = "user" THEN 1
        ELSE timeDiff

\* Array.prototype.sort is stable: m goes after every element that does not follow it
SortInsert(sorted, m) ==
    LET after == {i \in 1..Len(sorted) : Compare(sorted[i], m) > 0}
        tailFrom == IF \E i \in 1..Len(sorted) :
                          \A j \in i..Len(sorted) : j \in after
                    THEN CHOOSE i \in 1..Len(sorted) :
                            /\ \A j \in i..Len(sorted) : j \in after
                            /\ (i = 1 \/ (i - 1) \notin after)
                    ELSE Len(sorted) + 1
    IN  SubSeq(sorted, 1, tailFrom - 1) \o <<m>> \o SubSeq(sorted, tailFrom, Len(sorted))

RECURSIVE SortLoop(_, _, _)
SortLoop(msgs, i, sorted) ==
    IF i > Len(msgs) THEN sorted
    ELSE SortLoop(msgs, i + 1, SortInsert(sorted, msgs[i]))

SortedMessages(filtered) == SortLoop(filtered, 1, <<>>)

\* what a render shows for the collection msgs
Presentation(msgs) == SortedMessages(FilteredMessages(msgs))

(***************************************************************************)
(* A queued setMessages updater: the closure of one handler run            *)
(***************************************************************************)
Updater(kind, n, data, text, conversationId, metrics, delay) ==
    [kind |-> kind, n |-> n, data |-> data, text |-> text,
     conversationId |-> conversationId, metrics |-> metrics, delay |-> delay]

\* item.role || data.role
EffectiveRole(data) == IF data.itemRole # "" THEN data.itemRole ELSE data.role

\* the first string element of the content array, trimmed; fallback when it holds none
FirstString(content, fallback) ==
    LET k == FindIdx({i \in DOMAIN content : content[i].isString})
    IN  IF k = 0 THEN fallback ELSE Trim(content[k].value)

\* the extraction without trim()
ReplyTextUntrimmed(data) ==
    IF data.type = "conversation_item_added" /\ data.hasItem
    THEN FirstString(data.content, data.text)
    ELSE data.text

\* replyText (lines 230-252)
ReplyText(data) ==
    IF data.type = "conversation_item_added" /\ data.hasItem
    THEN FirstString(data.content, Trim(data.text))
    ELSE Trim(data.text)

\* `conv-${Date.now()}`
SyntheticConversationId(t) == "conv-" \o ToString(t)

\* the record the metrics branch builds (lines 448-478)
NormalizeMetrics(data, t) ==
    IF data.nested
    THEN PipelineMetrics(OrZero(data.vad), OrZero(data.stt), OrZero(data.llm),
             OrZero(data.tts), OrZero(data.total),
             IF data.conversation_id # "" THEN data.conversation_id
             ELSE SyntheticConversationId(t),
             IF data.timestamp # 0 THEN data.timestamp
             ELSE IF data.created_at # 0 THEN data.created_at ELSE t)
    ELSE PipelineMetrics(OrZero(data.vad), OrZero(data.stt), OrZero(data.llm),
             OrZero(data.tts), OrZero(data.total), data.conversation_id,
             IF data.created_at # 0 THEN data.created_at ELSE t)

\* the guards with the last branch taken for every other type
CallsSetMessagesAnyType(data) ==
    CASE data.type = "user_speech" -> Trim(data.text) # <<>>
      [] data.type = "agent_reply" -> TRUE
      [] data.type = "conversation_item_added" ->
            ~data.hasItem \/ EffectiveRole(data) = "assistant"
      [] data.type = "agent_speech" -> Trim(data.text) # <<>>
      [] OTHER -> data.nested \/ data.conversation_id # ""

\* whether handleDataReceived reaches a setMessages call for this payload
CallsSetMessages(data) ==
    CASE data.type = "user_speech" -> Trim(data.text) # <<>>
      [] data.type = "agent_reply" -> TRUE
      [] data.type = "conversation_item_added" ->
            ~data.hasItem \/ EffectiveRole(data) = "assistant"
      [] data.type = "agent_speech" -> Trim(data.text) # <<>>
      [] data.type \in {"pipeline_metrics", "metrics_collected"} ->
            data.nested \/ data.conversation_id # ""
      [] OTHER -> FALSE

\* the updater handleDataReceived queues for this payload, delivered n-th at time t
DataUpdater(data, n, t, ref) ==
    CASE data.type = "user_speech" ->
            Updater("user_speech", n, data, Trim(data.text),
                    LatestConversationId(ref), NoMetrics, 0)
      [] data.type \in {"agent_reply", "conversation_item_added"} ->
            Updater("agent_reply", n, data, ReplyText(data), "", NoMetrics, 0)
      [] data.type = "agent_speech" ->
            Updater("agent_speech", n, data, Trim(data.text), "", NoMetrics, 0)
      [] OTHER ->
            Updater("metrics", n, data, <<>>, "", NormalizeMetrics(data, t), 0)

\* running one updater on the state array
RunOne(prev, u, t, r, ref, lastUserSpeech, agentResponseStart) ==
    CASE u.kind = "user_speech" -> UserSpeechUpdater(prev, u, t, r)
      [] u.kind = "agent_reply" -> AgentReplyUpdater(prev, u, t, r, ref)
      [] u.kind = "agent_speech" -> AgentSpeechUpdater(prev, u, t, ref)
      [] u.kind = "metrics" -> MetricsUpdater(prev, u)
      [] u.kind = "trackPublished" -> TrackPublishedUpdater(prev, u)
      [] OTHER -> TrackSubscribedUpdater(prev, u, t, lastUserSpeech, agentResponseStart)

(***************************************************************************)
(* The state machine                                                       *)
(***************************************************************************)
TrackSids == {"TR_A"}

ChatInit ==
    /\ messages = <<>>
    /\ pipelineMetricsRef = <<>>
    /\ lastUserSpeechTimeRef = 0
    /\ agentResponseStartRef = 0
    /\ trackPublishTimesRef = [sid \in TrackSids |-> 0]
    /\ now = 1000
    /\ rnd = 1
    /\ pending = <<>>
    /\ dirty = FALSE
    /\ sortedMessages = <<>>
    /\ log = <<>>
    /\ hist = <<>>

\* process.env with every variable the front-end and the job endpoint read set
ConfiguredEnv ==
    [NEXT_PUBLIC_LIVEKIT_URL |-> "wss://livekit", LIVEKIT_API_KEY |-> TRUE,
     AGENT_WORKER_URL |-> ""]

\* useState({ wsUrl: "", token: "", shouldConnect: false, mode: "manual" })
\* (useConnection.tsx lines 25-30), no call made yet
ConnectionInit ==
    /\ connectionDetails = [wsUrl |-> "", token |-> "", shouldConnect |-> FALSE,
                            mode |-> "manual"]
    /\ connectClosure = [shouldConnect |-> FALSE, mode |-> "manual"]
    /\ tokenRequests = <<>>
    /\ connectLog = <<>>

\* useState(false) (useMediaDevices.ts line 10), no toggle made yet
MicInit ==
    /\ isMicEnabled = FALSE
    /\ toggleClosure = FALSE
    /\ micRequests = <<>>
    /\ micLog = <<>>

\* no request and no response of the job endpoint yet
IdleJob ==
    [pc |-> "idle",
     request |-> [caller |-> "none", method |-> "", jobType |-> "",
                  roomName |-> "", workerUrl |-> ""],
     dispatch |-> "none", worker |-> "none",
     response |-> [status |-> 0, success |-> FALSE, result |-> "none"],
     result |-> [success |-> FALSE, result |-> "none"], report |-> "none"]

\* no job submitted
JobInit == job = IdleJob

Init ==
    /\ ChatInit
    /\ env = ConfiguredEnv
    /\ ConnectionInit
    /\ MicInit /\ participantMic = FALSE
    /\ JobInit

\* handleDataReceived (lines 163-564) on payload data, data.dt ms after the previous handler
handleDataReceived(data) ==
    LET t == now + data.dt
        n == Len(log) + 1
        isMetrics == data.type \in {"pipeline_metrics", "metrics_collected"}
        ref == IF isMetrics /\ CallsSetMessages(data)
               THEN MapSet(pipelineMetricsRef, NormalizeMetrics(data, t))
               ELSE pipelineMetricsRef
    IN  /\ CallsSetMessages(data) => Len(pending) < MaxPending
        /\ now' = t
        /\ log' = Append(log, data)
        /\ pipelineMetricsRef' = ref
        /\ IF data.type = "user_speech" /\ CallsSetMessages(data)
           THEN lastUserSpeechTimeRef' = t /\ agentResponseStartRef' = t
           ELSE UNCHANGED <<lastUserSpeechTimeRef, agentResponseStartRef>>
        /\ pending' = IF CallsSetMessages(data)
                      THEN Append(pending, DataUpdater(data, n, t, pipelineMetricsRef))
                      ELSE pending
        /\ UNCHANGED <<messages, trackPublishTimesRef, rnd, dirty, sortedMessages, hist>>
        /\ UNCHANGED <<env, connVars, micVars, job>>

\* handleTrackPublished (lines 577-610)
handleTrackPublished(ev) ==
    LET t == now + ev.dt
        n == Len(log) + 1
        responds == ~ev.isLocal /\ ev.kind = "audio" /\ lastUserSpeechTimeRef # 0
    IN  /\ responds => Len(pending) < MaxPending
        /\ now' = t
        /\ log' = Append(log, ev)
        /\ trackPublishTimesRef' = [trackPublishTimesRef EXCEPT ![ev.trackSid] = t]
        /\ agentResponseStartRef' = IF responds THEN t ELSE agentResponseStartRef
        /\ pending' = IF responds
                      THEN Append(pending,
                               Updater("trackPublished", n, ev, <<>>, "", NoMetrics,
                                       t - lastUserSpeechTimeRef))
                      ELSE pending
        /\ UNCHANGED <<messages, pipelineMetricsRef, lastUserSpeechTimeRef, rnd,
                       dirty, sortedMessages, hist>>
        /\ UNCHANGED <<env, connVars, micVars, job>>

\* handleTrackSubscribed (lines 612-650)
handleTrackSubscribed(ev) ==
    LET t == now + ev.dt
        n == Len(log) + 1
        publishTime == trackPublishTimesRef[ev.trackSid]
        adds == /\ ~ev.isLocal
                /\ publishTime # 0
                /\ ev.kind = "audio"
                /\ lastUserSpeechTimeRef # 0
    IN  /\ adds => Len(pending) < MaxPending
        /\ now' = t
        /\ log' = Append(log, ev)
        /\ pending' = IF adds
                      THEN Append(pending,
                               Updater("trackSubscribed", n, ev, <<>>, "", NoMetrics, t))
                      ELSE pending
        /\ UNCHANGED <<messages, pipelineMetricsRef, lastUserSpeechTimeRef,
                       agentResponseStartRef, trackPublishTimesRef, rnd, dirty,
                       sortedMessages, hist>>
        /\ UNCHANGED <<env, connVars, micVars, job>>

\* React runs the oldest queued updater; the render that follows the last one
\* recomputes the memoised presentation when some updater returned a new array
RunUpdater ==
    /\ pending # <<>>
    /\ LET u == Head(pending)
           res == RunOne(messages, u, now, rnd, pipelineMetricsRef,
                         lastUserSpeechTimeRef, agentResponseStartRef)
           changed == dirty \/ res.changed
       IN  /\ messages' = res.msgs
           /\ pending' = Tail(pending)
           /\ rnd' = rnd + 1
           /\ hist' = Append(hist,
                  [u |-> u, before |-> messages, after |-> res.msgs,
                   conversationId |->
                       IF u.kind = "user_speech" THEN u.conversationId
                       ELSE IF u.kind \in {"agent_reply", "agent_speech"}
                            THEN ResolveConversationId(pipelineMetricsRef, u.data)
                       ELSE IF u.kind = "metrics" THEN u.metrics.conversationId
                       ELSE "",
                   at |-> now, changed |-> res.changed])
           /\ IF Tail(pending) = <<>>
              THEN /\ dirty' = FALSE
                   /\ sortedMessages' = IF changed THEN Presentation(res.msgs)
                                        ELSE sortedMessages
              ELSE /\ dirty' = changed
                   /\ UNCHANGED sortedMessages
    /\ UNCHANGED <<pipelineMetricsRef, lastUserSpeechTimeRef, agentResponseStartRef,
                   trackPublishTimesRef, now, log>>
    /\ UNCHANGED <<env, connVars, micVars, job>>

(***************************************************************************)
(* The inputs explored                                                     *)
(***************************************************************************)
TSalom == <<"salom">>
TSalomPadded == <<Blank, "Salom", Blank>>
TReply == <<"salom,", Blank, "qandaysiz?">>
TX == <<"X">>
TXLower == <<"x", Blank>>
TY == <<"Y">>
TBlank == <<Blank>>
TPlaceholder == <<Hourglass, Blank, PlaceholderPhrase>>

LatUser == Spread(NoLatency, [vad |-> Num(40), stt |-> Num(110),
                              userSpeechDuration |-> Num(900)])
LatAgent == Spread(NoLatency, [llm |-> Num(310), tts |-> Num(190),
                               agentResponseDuration |-> Num(500),
                               total |-> Num(700)])
LatSpeech == Spread(NoLatency, [tts |-> Num(210)])
LatBad == Spread(NoLatency, [llm |-> Num(-5), tts |-> Num(0)])

UserSpeech(text, ts, lat, dt) ==
    [Payload("user_speech", text, ts, "", lat) EXCEPT !.dt = dt]

AgentReply(text, ts, cid, lat) == Payload("agent_reply", text, ts, cid, lat)

AgentSpeech(text, ts, cid, lat) == Payload("agent_speech", text, ts, cid, lat)

ItemAdded(hasItem, itemRole, role, content, text) ==
    [Payload("conversation_item_added", text, 0, "", NoLatency) EXCEPT
        !.hasItem = hasItem, !.itemRole = itemRole, !.role = role,
        !.content = content]

Metrics(type, nested, cid, vad, stt, llm, tts, total, createdAt) ==
    [Payload(type, <<>>, 0, cid, NoLatency) EXCEPT
        !.nested = nested, !.vad = vad, !.stt = stt, !.llm = llm, !.tts = tts,
        !.total = total, !.created_at = createdAt]

Track(type, sid, kind, isLocal, dt) ==
    [Payload(type, <<>>, 0, "", NoLatency) EXCEPT
        !.trackSid = sid, !.kind = kind, !.isLocal = isLocal, !.dt = dt]

UserSpeechInputs ==
    { UserSpeech(TSalom, 1000, NoLatency, 0),
      UserSpeech(TSalom, 3000, NoLatency, 0),
      UserSpeech(TSalomPadded, 0, LatUser, 700),
      UserSpeech(TBlank, 1000, NoLatency, 0) }

AgentReplyInputs ==
    { AgentReply(TReply, 1800, "", NoLatency),
      AgentReply(TX, 2000, "c1", LatAgent),
      AgentReply(TXLower, 2300, "c1", LatBad),
      AgentReply(TY, 2300, "c1", NoLatency),
      AgentReply(TPlaceholder, 0, "", NoLatency),
      AgentReply(<<>>, 2000, "c1", LatAgent) }

ItemAddedInputs ==
    { ItemAdded(TRUE, "assistant", "", <<[isString |-> FALSE, value |-> <<>>],
                                         [isString |-> TRUE, value |-> TX]>>, <<>>) }

AgentSpeechInputs ==
    { AgentSpeech(TX, 2300, "c1", LatSpeech),
      AgentSpeech(TY, 2500, "", NoLatency),
      AgentSpeech(TX, 9500, "c1", NoLatency),
      AgentSpeech(TBlank, 2300, "c1", NoLatency) }

MetricsInputs ==
    { Metrics("pipeline_metrics", FALSE, "c1", Num(50), Num(120), Num(300),
              Num(200), Num(670), 1700),
      Metrics("pipeline_metrics", FALSE, "c1", Num(0), Undef, Num(-5),
              Num(0), Undef, 1900),
      Metrics("metrics_collected", TRUE, "", Num(5), Num(6), Num(7),
              Num(8), Num(26), 14000) }

OtherInputs ==
    { Payload("malformed", <<>>, 0, "", NoLatency) }

DataInputs ==
    UserSpeechInputs \cup AgentReplyInputs \cup ItemAddedInputs
        \cup AgentSpeechInputs \cup MetricsInputs \cup OtherInputs

TrackPublishedInputs ==
    { Track("trackPublished", "TR_A", "audio", FALSE, 0),
      Track("trackPublished", "TR_A", "audio", FALSE, 600) }

TrackSubscribedInputs ==
    { Track("trackSubscribed", "TR_A", "audio", FALSE, 0) }

\* the room delivers one more payload or notification
DataReceived(data) == Len(log) < MaxEvents /\ handleDataReceived(data)

TrackPublished(ev) == Len(log) < MaxEvents /\ handleTrackPublished(ev)

TrackSubscribed(ev) == Len(log) < MaxEvents /\ handleTrackSubscribed(ev)

Next ==
    \/ \E data \in DataInputs : DataReceived(data)
    \/ \E ev \in TrackPublishedInputs : TrackPublished(ev)
    \/ \E ev \in TrackSubscribedInputs : TrackSubscribed(ev)
    \/ RunUpdater

Spec == Init /\ [][Next]_vars

(***************************************************************************)
(* A second exploration of the same handlers: longer deliveries over the   *)
(* payloads the first leaves out (a late copy of a reply, items of other   *)
(* roles, an unrecognised type, a repeated track subscription).            *)
(***************************************************************************)
MaxEdgeEvents == 4

EdgeReplyInputs ==
    { AgentReply(TX, 2000, "c1", LatAgent),
      AgentReply(TX, 5000, "c1", NoLatency),
      AgentReply(TXLower, 2300, "c1", NoLatency) }

\* conversation_item_added whose role is not 'assistant': without an item,
\* with the role on the item, with the role at the top level only
EdgeItemInputs ==
    { ItemAdded(FALSE, "", "user", <<>>, TY),
      ItemAdded(TRUE, "user", "", <<[isString |-> TRUE, value |-> TY]>>, <<>>),
      ItemAdded(TRUE, "", "system", <<[isString |-> TRUE, value |-> TY]>>, TY) }

\* a payload JSON.parse rejects, and an object of a type no branch tests for
EdgeOtherInputs ==
    { Payload("malformed", <<>>, 0, "", NoLatency),
      Payload("transcript", TX, 2000, "c1", LatAgent) }

EdgeDataInputs ==
    { UserSpeech(TSalom, 1000, NoLatency, 0) }
        \cup EdgeReplyInputs \cup EdgeItemInputs \cup EdgeOtherInputs

EdgeTrackPublishedInputs ==
    { Track("trackPublished", "TR_A", "audio", FALSE, 0) }

EdgeTrackSubscribedInputs ==
    { Track("trackSubscribed", "TR_A", "audio", FALSE, 0),
      Track("trackSubscribed", "TR_A", "audio", FALSE, 5) }

EdgeDataReceived(data) == Len(log) < MaxEdgeEvents /\ handleDataReceived(data)

EdgeTrackPublished(ev) == Len(log) < MaxEdgeEvents /\ handleTrackPublished(ev)

EdgeTrackSubscribed(ev) == Len(log) < MaxEdgeEvents /\ handleTrackSubscribed(ev)

EdgeNext ==
    \/ \E data \in EdgeDataInputs : EdgeDataReceived(data)
    \/ \E ev \in EdgeTrackPublishedInputs : EdgeTrackPublished(ev)
    \/ \E ev \in EdgeTrackSubscribedInputs : EdgeTrackSubscribed(ev)
    \/ RunUpdater

EdgeSpec == Init /\ [][EdgeNext]_vars

(***************************************************************************)
(* A third exploration, of the metrics branch: metrics that arrive after   *)
(* an agent_speech that found no turn has put the collection in reverse    *)
(* order, and metrics events that carry no conversation id.                *)
(***************************************************************************)
MaxFallbackEvents == 4

FallbackDataInputs ==
    { UserSpeech(TSalom, 1000, NoLatency, 0),
      AgentReply(TReply, 1800, "", NoLatency),
      AgentReply(TY, 2300, "", NoLatency),
      AgentSpeech(TX, 2300, "c1", NoLatency),
      Metrics("pipeline_metrics", FALSE, "c1", Num(50), Num(120), Num(300),
              Num(200), Num(670), 1700),
      Metrics("pipeline_metrics", FALSE, "", Num(50), Num(120), Num(300),
              Num(200), Num(670), 1700),
      Metrics("metrics_collected", TRUE, "", Num(5), Num(6), Num(7),
              Num(8), Num(26), 1900) }

FallbackDataReceived(data) ==
    Len(log) < MaxFallbackEvents /\ handleDataReceived(data)

FallbackNext ==
    \/ \E data \in FallbackDataInputs : FallbackDataReceived(data)
    \/ RunUpdater

FallbackSpec == Init /\ [][FallbackNext]_vars

(***************************************************************************)
(* A fourth exploration: more than three human turns, with an agent_speech *)
(* that finds no turn and leaves the collection in reverse order.          *)
(***************************************************************************)
MaxDedupEvents == 6

DedupDataInputs ==
    { UserSpeech(TSalom, 1000, NoLatency, 0),
      UserSpeech(TSalom, 3000, NoLatency, 0),
      UserSpeech(TSalom, 5000, NoLatency, 0),
      UserSpeech(TSalom, 7000, NoLatency, 0),
      AgentSpeech(TX, 2300, "c1", NoLatency) }

DedupDataReceived(data) ==
    Len(log) < MaxDedupEvents /\ handleDataReceived(data)

DedupNext ==
    \/ \E data \in DedupDataInputs : DedupDataReceived(data)
    \/ RunUpdater

DedupSpec == Init /\ [][DedupNext]_vars

(***************************************************************************)
(* The presentation on its own: the collection is drawn from a family of   *)
(* collections longer than the filter's lookback, and each re-render       *)
(* computes filteredMessages and sortedMessages from it.                   *)
(***************************************************************************)
MaxRenderTurns == 12
MaxRenders == 2
MaxShortTurns == 3

\* the turn an agent_reply without conversation id appends (lines 344-356)
RenderTurn(i, text, ts) ==
    ChatMessage(MessageId("agent-reply", 1000, i), "agent", text, ts, NoLatency, "")

Word(i) == <<"w" \o ToString(i)>>

\* n turns of n different texts, 1 ms apart, and then a turn that repeats the
\* text of the p-th of them, gap ms after it
LookbackCollection(n, p, gap) ==
    [i \in 1..n |-> RenderTurn(i, Word(i), 1000 + i)]
        \o <<RenderTurn(n + 1, Word(p), 1000 + p + gap)>>

RenderGaps == {0, 2999, 3000}

LookbackCollections ==
    UNION { {LookbackCollection(n, p, gap) : p \in 1..n, gap \in RenderGaps} :
            n \in 1..(MaxRenderTurns - 1) }

\* turns as user_speech and agent_reply events create them while the metrics
\* table is empty; the ids are given by WithIds
ShortTurns ==
    { ChatMessage(<<>>, "agent", TX, 2000, NoLatency, "c1"),
      ChatMessage(<<>>, "agent", TX, 5000, NoLatency, "c1"),
      ChatMessage(<<>>, "agent", TY, 2300, NoLatency, "c1"),
      ChatMessage(<<>>, "agent", TReply, 2300, NoLatency, ""),
      ChatMessage(<<>>, "user", TSalom, 1000, NoLatency, ""),
      ChatMessage(<<>>, "user", TX, 3000, NoLatency, "") }

WithIds(c) ==
    [i \in DOMAIN c |->
        [c[i] EXCEPT !.id = MessageId(IF c[i].type = "user" THEN "user"
                                      ELSE "agent-reply", 1000, i)]]

\* up to MaxShortTurns of the turns above, each at most once, in any order
ShortCollections ==
    { WithIds(c) : c \in
        { s \in UNION { [1..n -> ShortTurns] : n \in 1..MaxShortTurns } :
            \A i, j \in DOMAIN s : i # j => s[i] # s[j] } }

RenderCollections == LookbackCollections \cup ShortCollections

\* the state once setMessages has committed a collection and a render is due
RenderInit ==
    /\ messages \in RenderCollections
    /\ pipelineMetricsRef = <<>>
    /\ lastUserSpeechTimeRef = 0
    /\ agentResponseStartRef = 0
    /\ trackPublishTimesRef = [sid \in TrackSids |-> 0]
    /\ now = 1000
    /\ rnd = 1
    /\ pending = <<>>
    /\ dirty = TRUE
    /\ sortedMessages = <<>>
    /\ log = <<>>
    /\ hist = <<>>
    /\ env = ConfiguredEnv
    /\ ConnectionInit
    /\ MicInit /\ participantMic = FALSE
    /\ JobInit

\* a render whose sort runs on the collection itself
AfterRenderSortedInPlace(msgs) == SortedMessages(msgs)

\* the collection after the two memos ran: filtered is a new array (line 51)
\* and the sort runs on a copy (line 109), so `messages` is as it was
AfterRender(msgs) == msgs

\* one render: the memos of lines 50-140 computed from `messages`
Render ==
    /\ Len(hist) < MaxRenders
    /\ sortedMessages' = Presentation(messages)
    /\ messages' = AfterRender(messages)
    /\ dirty' = FALSE
    /\ hist' = Append(hist, [before |-> messages, after |-> messages',
                             shown |-> sortedMessages'])
    /\ UNCHANGED <<pipelineMetricsRef, lastUserSpeechTimeRef, agentResponseStartRef,
                   trackPublishTimesRef, now, rnd, pending, log>>
    /\ UNCHANGED <<env, connVars, micVars, job>>

RenderNext == Render

RenderSpec == RenderInit /\ [][RenderNext]_vars

(***************************************************************************)
(* ConnectionProvider (src/hooks/useConnection.tsx).  `connect` is a       *)
(* useCallback over connectionDetails.shouldConnect and .mode (line 105):  *)
(* a call sees the values of the render that created the callback it was   *)
(* handed, which connectClosure holds until the next render.               *)
(***************************************************************************)
MaxConnEvents == 4

Modes == {"env", "manual"}

\* the object both the catch block (lines 96-101) and disconnect (113-118) set
ResetConnection ==
    [wsUrl |-> "", token |-> "", shouldConnect |-> FALSE, mode |-> "manual"]

\* what fetch('/api/token') can come back with (lines 69-81): a rejection, a
\* response that is not ok, a body without accessToken, a body with one
TokenResponses ==
    { [rejected |-> TRUE, ok |-> FALSE, accessToken |-> ""],
      [rejected |-> FALSE, ok |-> FALSE, accessToken |-> ""],
      [rejected |-> FALSE, ok |-> TRUE, accessToken |-> ""],
      [rejected |-> FALSE, ok |-> TRUE, accessToken |-> "jwt"] }

\* an entry of connectLog
ConnectEvent(op, mode, did, before, after, awaiting) ==
    [op |-> op, mode |-> mode, did |-> did, before |-> before, after |-> after,
     awaiting |-> awaiting]

\* connect(mode) up to its first await or its return (lines 32-105)
connect(mode) ==
    LET skip == connectClosure.shouldConnect /\ connectClosure.mode = mode
        withMode == [connectionDetails EXCEPT !.mode = mode]
        did == IF skip THEN "skipped"
               ELSE IF mode = "manual" THEN "connected"
               ELSE IF env.NEXT_PUBLIC_LIVEKIT_URL = "" THEN "failed"
               ELSE "fetching"
        after == CASE did = "skipped" -> connectionDetails
                   [] did = "connected" ->
                        [wsUrl |-> "", token |-> "", shouldConnect |-> TRUE,
                         mode |-> mode]
                   [] did = "failed" -> ResetConnection
                   [] did = "fetching" -> withMode
    IN  /\ connectionDetails' = after
        /\ tokenRequests' =
               IF did = "fetching"
               THEN Append(tokenRequests,
                        [mode |-> mode, url |-> env.NEXT_PUBLIC_LIVEKIT_URL])
               ELSE tokenRequests
        /\ connectLog' = Append(connectLog,
               ConnectEvent("connect", mode, did, connectionDetails, after,
                            Len(tokenRequests)))
        /\ UNCHANGED <<connectClosure, env, chatVars, micVars, job>>

\* the rest of a connect call once its fetch has settled (lines 69-102)
tokenResponse(i, response) ==
    LET request == tokenRequests[i]
        fails == response.rejected \/ ~response.ok \/ response.accessToken = ""
        after == IF fails THEN ResetConnection
                 ELSE [wsUrl |-> request.url, token |-> response.accessToken,
                       shouldConnect |-> TRUE, mode |-> request.mode]
    IN  /\ connectionDetails' = after
        /\ tokenRequests' = SubSeq(tokenRequests, 1, i - 1)
                               \o SubSeq(tokenRequests, i + 1, Len(tokenRequests))
        /\ connectLog' = Append(connectLog,
               ConnectEvent("response", request.mode,
                            IF fails THEN "failed" ELSE "connected",
                            connectionDetails, after, Len(tokenRequests) - 1))
        /\ UNCHANGED <<connectClosure, env, chatVars, micVars, job>>

\* disconnect() (lines 109-119)
disconnect ==
    /\ connectionDetails' = ResetConnection
    /\ connectLog' = Append(connectLog,
           ConnectEvent("disconnect", "manual", "reset", connectionDetails,
                        ResetConnection, Len(tokenRequests)))
    /\ UNCHANGED <<tokenRequests, connectClosure, env, chatVars, micVars, job>>

\* the provider renders again and useCallback makes a `connect` over the
\* current shouldConnect and mode (line 105)
ProviderRender ==
    /\ connectClosure # [shouldConnect |-> connectionDetails.shouldConnect,
                         mode |-> connectionDetails.mode]
    /\ connectClosure' = [shouldConnect |-> connectionDetails.shouldConnect,
                          mode |-> connectionDetails.mode]
    /\ UNCHANGED <<connectionDetails, tokenRequests, connectLog, env, chatVars,
                   micVars, job>>

\* builds with and without NEXT_PUBLIC_LIVEKIT_URL
ConnEnvs ==
    { ConfiguredEnv, [ConfiguredEnv EXCEPT !.NEXT_PUBLIC_LIVEKIT_URL = ""] }

ConnInit ==
    /\ ChatInit
    /\ env \in ConnEnvs
    /\ ConnectionInit
    /\ MicInit /\ participantMic = FALSE
    /\ JobInit

Connect(mode) == Len(connectLog) < MaxConnEvents /\ connect(mode)

Disconnect == Len(connectLog) < MaxConnEvents /\ disconnect

TokenResponse ==
    \E i \in DOMAIN tokenRequests, response \in TokenResponses :
        tokenResponse(i, response)

ConnNext ==
    \/ \E mode \in Modes : Connect(mode)
    \/ Disconnect
    \/ TokenResponse
    \/ ProviderRender

ConnSpec == ConnInit /\ [][ConnNext]_vars

(***************************************************************************)
(* The job endpoint (pages/api/livekit/job, handleJob), its client         *)
(* (src/utils/livekitJobClient.ts) and the playground effect that submits  *)
(* a start_agent job when the room connects (Playground.tsx, 131-185).     *)
(* One submission is followed from the request to the playground's log     *)
(* line; every await of the handler is a step of its own.  The job types   *)
(* that go through RoomServiceClient (update_room, delete_room,            *)
(* list_rooms) are left out.                                               *)
(***************************************************************************)
JobTypes ==
    {"", "start_agent", "start_worker", "start_recording", "transcription",
     "get_room", "custom"}

\* the body startAgentWorker posts (livekitJobClient.ts, 120-126)
PlaygroundRequest ==
    [caller |-> "playground", method |-> "POST", jobType |-> "start_agent",
     roomName |-> "room-1", workerUrl |-> ""]

\* requests of any caller of the endpoint; submitLiveKitJob always posts
JobRequests ==
    {PlaygroundRequest} \cup
    [caller : {"other"}, method : {"POST", "GET"}, jobType : JobTypes,
     roomName : {"", "room-1"}, workerUrl : {"", "http://worker"}]

\* res.status(status).json({ success, result })
JobResponse(status, success, result) ==
    [status |-> status, success |-> success, result |-> result]

JobError(status) == JobResponse(status, FALSE, "error")

\* the handler has answered
Responded(j, response) == [j EXCEPT !.pc = "responded", !.response = response]

\* the catch block of createDispatch (lines 301-337) up to the worker fetch,
\* and lines 340-363 when no worker URL is known
dispatchFailed(j) ==
    LET agentWorkerUrl == IF env.AGENT_WORKER_URL # "" THEN env.AGENT_WORKER_URL
                          ELSE j.request.workerUrl
        failed == [j EXCEPT !.dispatch = "failed"]
    IN  IF agentWorkerUrl # ""
        THEN [failed EXCEPT !.pc = "workerFetch"]
        ELSE Responded(failed, JobResponse(200, TRUE, "fallback"))

\* a request is sent to the endpoint (livekitJobClient.ts, 40-48)
submitLiveKitJob(request) ==
    /\ job.pc = "idle"
    /\ job' = [job EXCEPT !.pc = "posted", !.request = request]
    /\ UNCHANGED <<env, chatVars, connVars, micVars>>

\* handleJob up to its answer or its first await (lines 76-268)
handleJob ==
    LET r == job.request
        needsRoom == r.jobType \in {"start_agent", "start_worker",
                                    "transcription", "get_room"}
    IN  /\ job.pc = "posted"
        /\ job' =
             IF r.method # "POST" THEN Responded(job, JobError(405))
             ELSE IF ~env.LIVEKIT_API_KEY THEN Responded(job, JobError(500))
             ELSE IF r.jobType = "" THEN Responded(job, JobError(400))
             ELSE IF needsRoom /\ r.roomName = ""
                  THEN Responded(job, JobError(400))
             ELSE IF r.jobType \in {"start_agent", "start_worker"}
                  THEN IF env.NEXT_PUBLIC_LIVEKIT_URL = ""
                       THEN dispatchFailed(job)
                       ELSE [job EXCEPT !.pc = "dispatching"]
             ELSE Responded(job, JobResponse(200, TRUE, r.jobType))
        /\ UNCHANGED <<env, chatVars, connVars, micVars>>

\* createDispatch settles (lines 279-337)
dispatchSettled(created) ==
    /\ job.pc = "dispatching"
    /\ job' = IF created
              THEN Responded([job EXCEPT !.dispatch = "created"],
                             JobResponse(200, TRUE, "dispatch"))
              ELSE dispatchFailed(job)
    /\ UNCHANGED <<env, chatVars, connVars, micVars>>

\* the worker fetch settles (lines 309-363): with a response that is ok, with
\* one that is not, or with a rejection
workerSettled(outcome) ==
    /\ job.pc = "workerFetch"
    /\ job' = IF outcome = "ok"
              THEN Responded([job EXCEPT !.worker = "ok"],
                             JobResponse(200, TRUE, "worker"))
              ELSE Responded([job EXCEPT !.worker = "failed"],
                             JobResponse(200, TRUE, "fallback"))
    /\ UNCHANGED <<env, chatVars, connVars, micVars>>

\* the rest of submitLiveKitJob once its fetch has settled (lines 50-66)
submitLiveKitJobSettled(delivered) ==
    /\ job.pc = "responded"
    /\ job.request.method = "POST"
    /\ job' = [job EXCEPT
                 !.pc = "returned",
                 !.result =
                     IF ~delivered \/ job.response.status # 200
                     THEN [success |-> FALSE, result |-> "error"]
                     ELSE [success |-> job.response.success,
                           result |-> job.response.result]]
    /\ UNCHANGED <<env, chatVars, connVars, micVars>>

\* startAgent after `await startAgentWorker(...)` (Playground.tsx, 156-172)
startAgentReport ==
    /\ job.pc = "returned"
    /\ job.request.caller = "playground"
    /\ job' = [job EXCEPT
                 !.pc = "reported",
                 !.report = IF job.result.success THEN "submitted" ELSE "failed"]
    /\ UNCHANGED <<env, chatVars, connVars, micVars>>

\* servers with and without credentials, LiveKit host and worker URL
JobEnvs ==
    [NEXT_PUBLIC_LIVEKIT_URL : {"", "wss://livekit"}, LIVEKIT_API_KEY : BOOLEAN,
     AGENT_WORKER_URL : {"", "http://worker"}]

JobSpecInit ==
    /\ ChatInit
    /\ env \in JobEnvs
    /\ ConnectionInit
    /\ MicInit /\ participantMic = FALSE
    /\ JobInit

JobNext ==
    \/ \E request \in JobRequests : submitLiveKitJob(request)
    \/ handleJob
    \/ \E created \in BOOLEAN : dispatchSettled(created)
    \/ \E outcome \in {"ok", "notOk", "rejected"} : workerSettled(outcome)
    \/ \E delivered \in BOOLEAN : submitLiveKitJobSettled(delivered)
    \/ startAgentReport

JobSpec == JobSpecInit /\ [][JobNext]_vars

(***************************************************************************)
(* useMediaDevices (src/hooks/useMediaDevices.ts), the microphone half.    *)
(* toggleMicrophone is a useCallback over isMicEnabled (line 137): a call  *)
(* sees the value of the render that made the callback, which              *)
(* toggleClosure holds until the hook renders again.  participantMic is    *)
(* localParticipant.isMicrophoneEnabled.  The sync in the effect body      *)
(* (lines 25-27) makes the assignment of the periodic check and is not a   *)
(* step of its own.                                                        *)
(***************************************************************************)
MaxToggles == 3

\* an entry of micLog
MicEvent(op, newState, before, after) ==
    [op |-> op, newState |-> newState, before |-> before, after |-> after]

\* the state the catch block sets (line 135)
RevertState(newState) == ~newState

\* the updater of the periodic check (lines 85-91)
SyncMic(prev, currentState) == IF prev # currentState THEN currentState ELSE prev

\* toggleMicrophone up to its await (lines 119-130)
toggleMicrophone ==
    LET newState == ~toggleClosure
    IN  /\ isMicEnabled' = newState
        /\ micRequests' = Append(micRequests,
               [newState |-> newState, before |-> isMicEnabled])
        /\ micLog' = Append(micLog,
               MicEvent("toggle", newState, isMicEnabled, newState))
        /\ UNCHANGED <<toggleClosure, participantMic, env, chatVars, connVars, job>>

\* setMicrophoneEnabled(newState) resolves (lines 130-131); when the
\* microphone goes on, trackPublished or trackUnmuted may reach the
\* handlers of lines 35-66, which set isMicEnabled to true
micResolved(i, event) ==
    LET request == micRequests[i]
        after == IF request.newState /\ event THEN TRUE ELSE isMicEnabled
    IN  /\ participantMic' = request.newState
        /\ isMicEnabled' = after
        /\ micRequests' = SubSeq(micRequests, 1, i - 1)
                             \o SubSeq(micRequests, i + 1, Len(micRequests))
        /\ micLog' = Append(micLog,
               MicEvent("resolved", request.newState, request.before, after))
        /\ UNCHANGED <<toggleClosure, env, chatVars, connVars, job>>

\* setMicrophoneEnabled(newState) rejects (lines 132-136)
micRejected(i) ==
    LET request == micRequests[i]
        after == RevertState(request.newState)
    IN  /\ isMicEnabled' = after
        /\ micRequests' = SubSeq(micRequests, 1, i - 1)
                             \o SubSeq(micRequests, i + 1, Len(micRequests))
        /\ micLog' = Append(micLog,
               MicEvent("rejected", request.newState, request.before, after))
        /\ UNCHANGED <<toggleClosure, participantMic, env, chatVars, connVars, job>>

\* a tick of stateCheckInterval that changes the state (lines 75-92)
stateCheckInterval ==
    /\ SyncMic(isMicEnabled, participantMic) # isMicEnabled
    /\ isMicEnabled' = SyncMic(isMicEnabled, participantMic)
    /\ UNCHANGED <<toggleClosure, participantMic, micRequests, micLog, env,
                   chatVars, connVars, job>>

\* the hook renders again and useCallback makes a toggleMicrophone over the
\* current isMicEnabled (line 137)
MicRender ==
    /\ toggleClosure # isMicEnabled
    /\ toggleClosure' = isMicEnabled
    /\ UNCHANGED <<isMicEnabled, participantMic, micRequests, micLog, env,
                   chatVars, connVars, job>>

\* the hook is handed a participant whose microphone is off or already on
MicSpecInit ==
    /\ ChatInit
    /\ env = ConfiguredEnv
    /\ ConnectionInit
    /\ MicInit /\ participantMic \in BOOLEAN
    /\ JobInit

MicNext ==
    \/ /\ Cardinality({ k \in DOMAIN micLog : micLog[k].op = "toggle" })
              < MaxToggles
       /\ toggleMicrophone
    \/ \E i \in DOMAIN micRequests, event \in BOOLEAN : micResolved(i, event)
    \/ \E i \in DOMAIN micRequests : micRejected(i)
    \/ stateCheckInterval
    \/ MicRender

\* setInterval keeps firing every second (line 92)
MicFairSpec == MicSpecInit /\ [][MicNext]_vars /\ WF_vars(stateCheckInterval)

(***************************************************************************)
(* Vocabulary of the properties                                            *)
(***************************************************************************)
Stages == {"vad", "stt", "llm", "tts", "total"}

Positive(x) == x # <<>> /\ x[1] > 0

\* the record field of a PipelineMetrics that holds a stage
StageOf(metrics, f) ==
    CASE f = "vad" -> metrics.vad
      [] f = "stt" -> metrics.stt
      [] f = "llm" -> metrics.llm
      [] f = "tts" -> metrics.tts
      [] OTHER -> metrics.total

Elems(s) == {s[i] : i \in 1..Len(s)}

CountType(s, type) == Cardinality({i \in 1..Len(s) : s[i].type = type})

\* the timestamp an event had for the updater that ran as hist[j]
EffectiveTimestamp(j) == TimestampOr(hist[j].u.data, hist[j].at)

\* hist[j] appended exactly one turn and left the others as they were
Appended(j) ==
    /\ Len(hist[j].after) = Len(hist[j].before) + 1
    /\ SubSeq(hist[j].after, 1, Len(hist[j].before)) = hist[j].before

CreatedTurn(j) == hist[j].after[Len(hist[j].after)]

Quiescent == pending = <<>>

(***************************************************************************)
(* C1  The scenario user_speech('salom', 1000); flat pipeline_metrics(c1,  *)
(* vad 50, stt 120, llm 300, tts 200, total 670, created_at 1700);         *)
(* agent_reply('salom, qandaysiz?', 1800), delivered in this order from    *)
(* the empty state, shows exactly two turns: the human turn at 1000 with   *)
(* vad 50 and stt 120, and the agent turn with llm 300, tts 200, total 670.*)
(***************************************************************************)
C1_Log ==
    << UserSpeech(TSalom, 1000, NoLatency, 0),
       Metrics("pipeline_metrics", FALSE, "c1", Num(50), Num(120), Num(300),
               Num(200), Num(670), 1700),
       AgentReply(TReply, 1800, "", NoLatency) >>

C1_ScenarioOutput ==
    (log = C1_Log /\ Quiescent) =>
        /\ Len(sortedMessages) = 2
        /\ sortedMessages[1].type = "user"
        /\ sortedMessages[1].timestamp = 1000
        /\ sortedMessages[1].latency["vad"] = Num(50)
        /\ sortedMessages[1].latency["stt"] = Num(120)
        /\ sortedMessages[2].type = "agent"
        /\ sortedMessages[2].text = TReply
        /\ sortedMessages[2].latency["llm"] = Num(300)
        /\ sortedMessages[2].latency["tts"] = Num(200)
        /\ sortedMessages[2].latency["total"] = Num(670)

(***************************************************************************)
(* C2  Metrics and agent reply merge in either arrival order: when one     *)
(* metrics event with key k and an agent_reply resolving to k have both    *)
(* run, the agent turn of that reply carries every positive stage of the   *)
(* metrics record.                                                         *)
(***************************************************************************)
C2_MergeEitherOrder ==
    \A i, j \in DOMAIN hist :
        LET k == hist[i].conversationId
            last == IF i < j THEN j ELSE i
        IN  ( /\ hist[i].u.kind = "metrics"
              /\ hist[j].u.kind = "agent_reply"
              /\ hist[j].u.text # <<>>
              /\ hist[j].conversationId = k
              /\ \A h \in DOMAIN hist : hist[h].u.kind = "metrics" => h = i )
            => \A m \in Elems(hist[last].after) :
                   ( /\ m.type = "agent"
                     /\ m.conversationId = k
                     /\ SameReplyText(m.text, hist[j].u.text) )
                   => \A f \in Stages :
                          StageOf(hist[i].u.metrics, f) > 0
                              => m.latency[f] = Num(StageOf(hist[i].u.metrics, f))

(***************************************************************************)
(* C3  The same user_speech event (same text, timestamps less than 2000 ms *)
(* apart) run twice in succession adds exactly one human turn, from any    *)
(* reachable state.                                                        *)
(***************************************************************************)
SameSpeechTwice(j) ==
    /\ j + 1 \in DOMAIN hist
    /\ hist[j].u.kind = "user_speech"
    /\ hist[j + 1].u.kind = "user_speech"
    /\ hist[j].u.text = hist[j + 1].u.text
    /\ Abs(EffectiveTimestamp(j) - EffectiveTimestamp(j + 1)) < UserDupWindowMs

C4_MetricsKeepPositive ==
    \A j \in DOMAIN hist :
        hist[j].u.kind = "metrics" =>
            /\ Len(hist[j].after) = Len(hist[j].before)
            /\ \A i \in 1..Len(hist[j].before) : \A f \in Stages :
                  ( /\ Positive(hist[j].before[i].latency[f])
                    /\ StageOf(hist[j].u.metrics, f) <= 0 )
                  => hist[j].after[i].latency[f] = hist[j].before[i].latency[f]

C4_Witness ==
    \E j \in DOMAIN hist :
        /\ hist[j].u.kind = "metrics"
        /\ \E i \in 1..Len(hist[j].before) : \E f \in Stages :
              /\ hist[j].before[i].conversationId = hist[j].u.metrics.conversationId
              /\ Positive(hist[j].before[i].latency[f])
              /\ StageOf(hist[j].u.metrics, f) <= 0
              /\ hist[j].after[i] # hist[j].before[i]

(***************************************************************************)
(* C5  Whatever the event, a latency field that holds a positive value is  *)
(* only ever replaced by another value greater than 0.                     *)
(***************************************************************************)
C5_OnlyPositiveReplaces ==
    \A j \in DOMAIN hist :
        \A b \in Elems(hist[j].before) : \A a \in Elems(hist[j].after) :
            a.id = b.id =>
                \A f \in LatencyFields :
                    Positive(b.latency[f]) => Positive(a.latency[f])

(***************************************************************************)
(* C6  An agent reply with non-empty text whose normalized text differs    *)
(* from every agent turn of the same resolved conversation id appends a    *)
(* new agent turn and leaves the existing turns as they were.              *)
(***************************************************************************)
NewReplyText(j) ==
    /\ hist[j].u.kind = "agent_reply"
    /\ hist[j].u.text # <<>>
    /\ \A m \in Elems(hist[j].before) :
          (m.type = "agent" /\ m.conversationId = hist[j].conversationId)
              => Normalize(m.text) # Normalize(hist[j].u.text)

C6_DistinctTextAppends ==
    \A j \in DOMAIN hist :
        NewReplyText(j) =>
            /\ Appended(j)
            /\ CreatedTurn(j).type = "agent"
            /\ CreatedTurn(j).text = hist[j].u.text
            /\ CreatedTurn(j).conversationId = hist[j].conversationId

C6_Witness ==
    \E j \in DOMAIN hist :
        /\ NewReplyText(j)
        /\ hist[j].conversationId # ""
        /\ \E m \in Elems(hist[j].before) :
              /\ m.type = "agent"
              /\ m.conversationId = hist[j].conversationId
              /\ Abs(m.timestamp - EffectiveTimestamp(j)) < ReplyDupWindowMs
        /\ Appended(j)

(***************************************************************************)
(* C7  A human turn and an agent turn of the presentation output whose     *)
(* timestamps differ by less than 1000 ms appear human first, whatever     *)
(* their order in the collection and whichever has the smaller timestamp.  *)
(***************************************************************************)
C7_HumanBeforeAgent ==
    \A i, j \in DOMAIN sortedMessages :
        ( /\ sortedMessages[i].type = "user"
          /\ sortedMessages[j].type = "agent"
          /\ Abs(sortedMessages[i].timestamp - sortedMessages[j].timestamp) < 1000 )
        => i < j

\* the agent turn is older, and earlier in the collection, than the human turn
C7_Witness ==
    \E p, q \in DOMAIN messages :
        /\ p < q
        /\ messages[p].type = "agent"
        /\ messages[q].type = "user"
        /\ messages[p].timestamp < messages[q].timestamp
        /\ messages[q].timestamp - messages[p].timestamp < 1000
        /\ \E i, j \in DOMAIN sortedMessages :
              /\ i < j
              /\ sortedMessages[i] = messages[q]
              /\ sortedMessages[j] = messages[p]

(***************************************************************************)
(* C8  No turn whose text holds a placeholder marker (the hourglass or     *)
(* 'Agent javob bermoqda') and no turn with empty or whitespace-only text  *)
(* is in the presentation output, even when the collection holds one.      *)
(***************************************************************************)
C8_NoPlaceholderShown ==
    \A i \in DOMAIN sortedMessages :
        /\ \A k \in DOMAIN sortedMessages[i].text :
              sortedMessages[i].text[k] \notin {"HOURGLASS", "Agent javob bermoqda"}
        /\ \E k \in DOMAIN sortedMessages[i].text : sortedMessages[i].text[k] # " "

C8_Witness ==
    /\ Quiescent
    /\ \E m \in Elems(messages) : "Agent javob bermoqda" \in Elems(m.text)
    /\ \E m \in Elems(messages) : m \in Elems(sortedMessages)

(***************************************************************************)
(* C9  An agent_reply that creates an agent turn with conversation id c,   *)
(* followed at once by an agent_speech resolving to c and less than        *)
(* 5000 ms from the turn, leaves one turn for the pair: none is added, the *)
(* turn takes the refinement text, and its latency is merged.              *)
(***************************************************************************)
ReplyThenSpeech(j) ==
    /\ j + 1 \in DOMAIN hist
    /\ hist[j].u.kind = "agent_reply"
    /\ Appended(j)
    /\ hist[j].conversationId # ""
    /\ CreatedTurn(j).conversationId = hist[j].conversationId
    /\ hist[j + 1].u.kind = "agent_speech"
    /\ hist[j + 1].conversationId = hist[j].conversationId
    /\ Abs(EffectiveTimestamp(j + 1) - CreatedTurn(j).timestamp) < 5000

C9_SpeechRefinesReply ==
    \A j \in DOMAIN hist :
        ReplyThenSpeech(j) =>
            LET created == CreatedTurn(j)
                speech == hist[j + 1].u
                same == {m \in Elems(hist[j + 1].after) : m.id = created.id}
            IN  /\ Len(hist[j + 1].after) = Len(hist[j].after)
                /\ Cardinality(same) = 1
                /\ \A m \in same :
                      /\ m.text = speech.text
                      /\ m.type = "agent"
                      /\ m.conversationId = created.conversationId
                      /\ \A f \in {"llm", "tts", "total", "agentResponseDuration"} :
                            m.latency[f] = IF Truthy(speech.data.latency[f])
                                           THEN speech.data.latency[f]
                                           ELSE created.latency[f]
                      /\ \A f \in {"vad", "stt", "userSpeechDuration"} :
                            m.latency[f] = created.latency[f]
                /\ \A m \in Elems(hist[j].after) :
                      m.id # created.id => m \in Elems(hist[j + 1].after)

C9_Witness ==
    \E j \in DOMAIN hist :
        /\ ReplyThenSpeech(j)
        /\ hist[j].before # <<>>
        /\ hist[j + 1].u.text # CreatedTurn(j).text
        /\ \E f \in LatencyFields :
              /\ Truthy(hist[j + 1].u.data.latency[f])
              /\ hist[j + 1].u.data.latency[f] # CreatedTurn(j).latency[f]

(***************************************************************************)
(* C10  Every turn of the collection has non-empty, trimmed text: an event *)
(* whose extracted text is empty or blank creates no turn and never        *)
(* replaces a turn's text.                                                 *)
(***************************************************************************)
C10_TextNeverEmpty ==
    \A i \in DOMAIN messages :
        /\ messages[i].text # <<>>
        /\ messages[i].text[1] # " "
        /\ messages[i].text[Len(messages[i].text)] # " "

\* a blank user_speech, an empty agent_reply and a blank agent_speech were all delivered
C10_Witness ==
    /\ Quiescent
    /\ messages # <<>>
    /\ \E n \in DOMAIN log : log[n].type = "agent_reply" /\ log[n].text = <<>>
    /\ \E n \in DOMAIN log :
          log[n].type \in {"user_speech", "agent_speech"} /\ log[n].text = <<" ">>

(***************************************************************************)
(* C11  All turns of the collection have pairwise distinct ids, including  *)
(* turns created within the same millisecond and the turns the remote      *)
(* audio track-subscribed handler creates.                                 *)
(***************************************************************************)
C11_IdsDistinct ==
    \A i, j \in DOMAIN messages :
        messages[i].id = messages[j].id => i = j

(***************************************************************************)
(* C12  An agent reply whose resolved conversation id and normalized text  *)
(* equal those of some existing agent turn less than 2000 ms from the      *)
(* event's timestamp adds no turn: it merges into that turn.               *)
(***************************************************************************)
\* the agent turns of hist[j].before that the reply run as hist[j] duplicates
DuplicatedTurns(j) ==
    {m \in Elems(hist[j].before) :
        /\ m.type = "agent"
        /\ m.conversationId = hist[j].conversationId
        /\ Normalize(m.text) = Normalize(hist[j].u.text)
        /\ Abs(EffectiveTimestamp(j) - m.timestamp) < 2000}

C12_DuplicateReplyMerges ==
    \A j \in DOMAIN hist :
        ( /\ hist[j].u.kind = "agent_reply"
          /\ hist[j].u.text # <<>>
          /\ hist[j].conversationId # ""
          /\ DuplicatedTurns(j) # {} )
        => Len(hist[j].after) = Len(hist[j].before)

(***************************************************************************)
(* C13  No event removes a turn: every id of the collection before an      *)
(* update is in the collection after it, and the number of turns never     *)
(* decreases.                                                              *)
(***************************************************************************)
C13_NeverRemoved ==
    \A j \in DOMAIN hist :
        /\ Len(hist[j].after) >= Len(hist[j].before)
        /\ \A b \in Elems(hist[j].before) :
              \E a \in Elems(hist[j].after) : a.id = b.id
        /\ j + 1 \in DOMAIN hist => hist[j + 1].before = hist[j].after
        /\ j = Len(hist) => messages = hist[j].after

\* a metrics merge, a track-published update and a dropped agent_speech have
\* each rewritten a collection of two turns or more
C13_Witness ==
    \E j \in DOMAIN hist :
        /\ Len(hist[j].before) >= 2
        /\ hist[j].u.kind \in {"metrics", "trackPublished", "agent_speech"}
        /\ hist[j].after # hist[j].before
        /\ Len(hist[j].after) = Len(hist[j].before)

(***************************************************************************)
(* C14  A payload that fails JSON decoding, or whose type is none of the   *)
(* recognised event types, changes nothing: the collection, the metrics    *)
(* table, the timing refs and the queue of updates are as before, so the   *)
(* events delivered afterwards are processed as if it had never arrived.   *)
(***************************************************************************)
RecognisedTypes ==
    {"user_speech", "agent_reply", "conversation_item_added", "agent_speech",
     "pipeline_metrics", "metrics_collected"}

TrackTypes == {"trackPublished", "trackSubscribed"}

IsBadPayload(data) == data.type \notin RecognisedTypes \cup TrackTypes

C14_BadPayloadIgnored ==
    [][ (log' # log /\ IsBadPayload(log'[Len(log')]))
            => UNCHANGED <<messages, pipelineMetricsRef, lastUserSpeechTimeRef,
                           agentResponseStartRef, trackPublishTimesRef, now,
                           rnd, pending, dirty, sortedMessages, hist>> ]_vars

\* both kinds of bad payload were delivered and a later event created a turn
C14_Witness ==
    /\ \E n \in DOMAIN log : log[n].type = "malformed"
    /\ \E n \in DOMAIN log : log[n].type = "transcript"
    /\ \E j \in DOMAIN hist :
          /\ Appended(j)
          /\ \E n \in DOMAIN log : n < hist[j].u.n /\ IsBadPayload(log[n])

(***************************************************************************)
(* C15  A conversation_item_added event whose role (item.role, or the      *)
(* top-level role when the item has none or is absent) is not 'assistant'  *)
(* creates no turn and modifies none.                                      *)
(***************************************************************************)
C15_OtherRolesDropped ==
    \A j \in DOMAIN hist :
        ( /\ hist[j].u.data.type = "conversation_item_added"
          /\ EffectiveRole(hist[j].u.data) # "assistant" )
        => hist[j].after = hist[j].before

(***************************************************************************)
(* C16  When the conversation id an agent_speech event resolves to matches *)
(* no agent turn within 5000 ms, but the most recent agent turn is within  *)
(* 5000 ms of the event, that turn takes the refinement text.              *)
(***************************************************************************)
\* the agent turns of a collection, the most recent (last) one first
AgentsLatestFirst(msgs) == Reverse(SelectSeq(msgs, LAMBDA m : m.type = "agent"))

\* hist[j] ran an agent_speech whose resolved id matches no agent turn in the
\* window while the most recent agent turn is inside the window
SpeechNeedsFallback(j) ==
    /\ hist[j].u.kind = "agent_speech"
    /\ hist[j].conversationId # ""
    /\ \A m \in Elems(hist[j].before) :
          (m.type = "agent" /\ m.conversationId = hist[j].conversationId)
              => Abs(EffectiveTimestamp(j) - m.timestamp) >= 5000
    /\ AgentsLatestFirst(hist[j].before) # <<>>
    /\ Abs(EffectiveTimestamp(j) - AgentsLatestFirst(hist[j].before)[1].timestamp) < 5000

C16_SpeechFallsBack ==
    \A j \in DOMAIN hist :
        SpeechNeedsFallback(j) =>
            \E a \in Elems(hist[j].after) :
                /\ a.id = AgentsLatestFirst(hist[j].before)[1].id
                /\ a.text = hist[j].u.text

(***************************************************************************)
(* C17  An agent_speech event for which no target turn is found is dropped *)
(* without effect: the ordered collection after it is the collection       *)
(* before it.                                                              *)
(***************************************************************************)
\* no agent turn at all lies within 5000 ms of the agent_speech run as hist[j],
\* so neither the conversation id nor the fallback can find a target
SpeechHasNoTarget(j) ==
    /\ hist[j].u.kind = "agent_speech"
    /\ \A m \in Elems(hist[j].before) :
          m.type = "agent" => Abs(EffectiveTimestamp(j) - m.timestamp) >= 5000

C17_DroppedSpeechNoEffect ==
    \A j \in DOMAIN hist :
        SpeechHasNoTarget(j) => hist[j].after = hist[j].before

(***************************************************************************)
(* C18  Events take effect as if each handler ran to completion, reads and *)
(* writes included, before the next event is delivered: an agent_reply or  *)
(* agent_speech resolves its conversation id against the metrics stored by *)
(* the events delivered before it, never by one delivered after it.        *)
(***************************************************************************)
\* the metrics table as it was when the event run as hist[j] was delivered:
\* updates run in delivery order, so the metrics events delivered before it
\* are exactly those run before it
RECURSIVE TableAtDelivery(_)
TableAtDelivery(j) ==
    IF j = 1 THEN <<>>
    ELSE IF hist[j - 1].u.kind = "metrics"
         THEN MapSet(TableAtDelivery(j - 1), hist[j - 1].u.metrics)
         ELSE TableAtDelivery(j - 1)

C18_RunToCompletion ==
    \A j \in DOMAIN hist :
        ( /\ hist[j].u.kind \in {"agent_reply", "agent_speech"}
          /\ hist[j].u.text # <<>> )
        => hist[j].conversationId =
               ResolveConversationId(TableAtDelivery(j), hist[j].u.data)

(***************************************************************************)
(* C19  Remote track notifications are used for timing only: none of them  *)
(* adds a turn or changes the text, speaker or conversation id of a turn.  *)
(***************************************************************************)
\* what a track notification must leave alone in a turn
Identity(m) == [id |-> m.id, type |-> m.type, text |-> m.text,
                conversationId |-> m.conversationId]

C19_TracksOnlyTiming ==
    \A j \in DOMAIN hist :
        hist[j].u.kind \in {"trackPublished", "trackSubscribed"} =>
            /\ Len(hist[j].after) = Len(hist[j].before)
            /\ \A i \in DOMAIN hist[j].before :
                  Identity(hist[j].after[i]) = Identity(hist[j].before[i])

(***************************************************************************)
(* C20  On a metrics event with key k that some turn carries, every turn   *)
(* with conversation id k, human or agent, has each of vad, stt, llm, tts, *)
(* total set to the event's value when that value is > 0 and keeps its     *)
(* previous value otherwise; no other turn is modified.                    *)
(***************************************************************************)
\* hist[j] ran a metrics event whose key some turn of the collection carries
MetricsWithMatch(j) ==
    /\ hist[j].u.kind = "metrics"
    /\ \E m \in Elems(hist[j].before) : m.conversationId = hist[j].conversationId

\* turn a is turn b with its five stages merged; when the event's value is not
\* > 0 a stage keeps its value, and a stage that had none holds absentAs
MergedInto(a, b, metrics, absentAs) ==
    /\ [a EXCEPT !.latency = b.latency] = b
    /\ \A f \in LatencyFields \ Stages : a.latency[f] = b.latency[f]
    /\ \A f \in Stages :
          a.latency[f] = IF StageOf(metrics, f) > 0
                         THEN Num(StageOf(metrics, f))
                         ELSE IF b.latency[f] = Undef THEN absentAs
                         ELSE b.latency[f]

MetricsMergeAs(absentAs) ==
    \A j \in DOMAIN hist :
        MetricsWithMatch(j) =>
            /\ Len(hist[j].after) = Len(hist[j].before)
            /\ \A i \in DOMAIN hist[j].before :
                  IF hist[j].before[i].conversationId = hist[j].conversationId
                  THEN MergedInto(hist[j].after[i], hist[j].before[i],
                                  hist[j].u.metrics, absentAs)
                  ELSE hist[j].after[i] = hist[j].before[i]

\* the claim as stated: a stage the event does not set is left as it was
C20_MetricsMergeKeeps == MetricsMergeAs(Undef)

\* C20 as amended: a stage the event does not set keeps the value recorded for
\* it, and holds 0 when none was recorded
C20_MetricsMergeKeepsOrZero == MetricsMergeAs(Num(0))

\* a matching turn took a positive stage from the event, and a matching turn
\* with a stage never recorded met an event that does not set it
C20_Witness ==
    /\ \E j \in DOMAIN hist : \E i \in DOMAIN hist[j].before : \E f \in Stages :
          /\ MetricsWithMatch(j)
          /\ hist[j].before[i].conversationId = hist[j].conversationId
          /\ StageOf(hist[j].u.metrics, f) > 0
          /\ hist[j].before[i].latency[f] # Num(StageOf(hist[j].u.metrics, f))
    /\ \E j \in DOMAIN hist : \E i \in DOMAIN hist[j].before : \E f \in Stages :
          /\ MetricsWithMatch(j)
          /\ hist[j].before[i].conversationId = hist[j].conversationId
          /\ StageOf(hist[j].u.metrics, f) <= 0
          /\ hist[j].before[i].latency[f] = Undef

(***************************************************************************)
(* C21  On a metrics event with key k that no turn carries: among the      *)
(* three most recently created agent turns, the most recent one within     *)
(* 10000 ms of the record's observation time takes conversation id k and   *)
(* the merged latency; no other turn changes, no human turn is assigned,   *)
(* and when no agent turn qualifies the collection is unchanged.           *)
(***************************************************************************)
\* the update that created the turn with this id: turns are never removed, so
\* it is the first update after which the id is in the collection
CreatedBy(id) ==
    CHOOSE j \in DOMAIN hist :
        /\ \E m \in Elems(hist[j].after) : m.id = id
        /\ \A h \in 1..(j - 1) : \A m \in Elems(hist[h].after) : m.id # id

\* the turns of the given speaker in hist[j].before that are among the n most
\* recently created of that speaker
LastCreated(j, speaker, n) ==
    LET of == {m \in Elems(hist[j].before) : m.type = speaker}
    IN  {m \in of :
            Cardinality({o \in of : CreatedBy(o.id) > CreatedBy(m.id)}) < n}

MetricsWithoutMatch(j) ==
    /\ hist[j].u.kind = "metrics"
    /\ \A m \in Elems(hist[j].before) : m.conversationId # hist[j].conversationId

\* the agent turns the fallback may choose from
FallbackCandidates(j) ==
    {m \in LastCreated(j, "agent", 3) :
        Abs(hist[j].u.metrics.createdAt - m.timestamp) < 10000}

C21_FallbackMostRecent ==
    \A j \in DOMAIN hist :
        MetricsWithoutMatch(j) =>
            /\ Len(hist[j].after) = Len(hist[j].before)
            /\ FallbackCandidates(j) = {} => hist[j].after = hist[j].before
            /\ \A i \in DOMAIN hist[j].before :
                  LET b == hist[j].before[i]
                      a == hist[j].after[i]
                  IN  IF /\ b \in FallbackCandidates(j)
                         /\ \A o \in FallbackCandidates(j) :
                                CreatedBy(o.id) <= CreatedBy(b.id)
                      THEN /\ a.conversationId = hist[j].conversationId
                           /\ [a EXCEPT !.latency = b.latency,
                                         !.conversationId = b.conversationId] = b
                           /\ \A f \in LatencyFields \ Stages :
                                  a.latency[f] = b.latency[f]
                           /\ \A f \in Stages :
                                  StageOf(hist[j].u.metrics, f) > 0 =>
                                      a.latency[f] = Num(StageOf(hist[j].u.metrics, f))
                      ELSE a = b

(***************************************************************************)
(* C22  The metrics table holds an entry for every conversation id for     *)
(* which a metrics event was accepted, the entry holds the values of the   *)
(* most recent accepted event for that id, and no entry is ever removed,   *)
(* also when the event matched no turn.                                    *)
(***************************************************************************)
\* the metrics events accepted so far: each queued one update, run or pending
AcceptedMetrics ==
    {hist[j].u : j \in {h \in DOMAIN hist : hist[h].u.kind = "metrics"}}
        \cup {pending[i] : i \in {h \in DOMAIN pending : pending[h].kind = "metrics"}}

C22_TableKeepsLatest ==
    /\ \A u \in AcceptedMetrics :
          \E i \in DOMAIN pipelineMetricsRef :
              /\ pipelineMetricsRef[i].conversationId = u.metrics.conversationId
              /\ (\A o \in AcceptedMetrics :
                      o.metrics.conversationId = u.metrics.conversationId => o.n <= u.n)
                  => pipelineMetricsRef[i] = u.metrics
    /\ \A i, k \in DOMAIN pipelineMetricsRef :
          pipelineMetricsRef[i].conversationId = pipelineMetricsRef[k].conversationId
              => i = k
    /\ \A i \in DOMAIN pipelineMetricsRef :
          \E u \in AcceptedMetrics : u.metrics = pipelineMetricsRef[i]

\* two ids are stored, one of them was overwritten by a later event, and no
\* turn exists that any of the events could have matched
C22_Witness ==
    /\ Len(pipelineMetricsRef) = 2
    /\ \E u, o \in AcceptedMetrics :
          /\ u.metrics.conversationId = o.metrics.conversationId
          /\ u.n < o.n
          /\ u.metrics # o.metrics
    /\ messages = <<>>
    /\ Quiescent

(***************************************************************************)
(* C23  A flat metrics event without a conversation id is dropped: the     *)
(* metrics table and the collection (and the queue of updates to it) stay  *)
(* as they are.  A nested one without an id is accepted and stored under a *)
(* fresh synthetic id: the table gains one entry and keeps the others.     *)
(***************************************************************************)
Delivered(data) == log' # log /\ log'[Len(log')] = data

IsMetricsWithoutId(data) ==
    /\ data.type \in {"pipeline_metrics", "metrics_collected"}
    /\ data.conversation_id = ""

C23_MetricsWithoutId ==
    [][ \A data \in FallbackDataInputs :
            (Delivered(data) /\ IsMetricsWithoutId(data)) =>
                IF data.nested
                THEN /\ Len(pipelineMetricsRef') = Len(pipelineMetricsRef) + 1
                     /\ SubSeq(pipelineMetricsRef', 1, Len(pipelineMetricsRef))
                            = pipelineMetricsRef
                     /\ Len(pending') = Len(pending) + 1
                ELSE UNCHANGED <<pipelineMetricsRef, messages, pending>> ]_vars

(***************************************************************************)
(* C24  An agent_reply that is merged into an existing agent turn changes  *)
(* nothing but the latency of that one turn: the collection afterwards     *)
(* holds the same turns as before, except that one of them has another     *)
(* latency record (text, id, speaker, conversation id and timestamp as     *)
(* they were).  The position of the turns is not compared.                 *)
(***************************************************************************)
Count(s, m) == Cardinality({i \in DOMAIN s : s[i] = m})

SameTurns(s, t) ==
    /\ Len(s) = Len(t)
    /\ \A m \in Elems(s) \cup Elems(t) : Count(s, m) = Count(t, m)

ReplyMerged(j) ==
    /\ hist[j].u.kind = "agent_reply"
    /\ hist[j].changed
    /\ Len(hist[j].after) = Len(hist[j].before)

C24_MergeOnlyLatency ==
    \A j \in DOMAIN hist :
        ReplyMerged(j) =>
            \E k \in DOMAIN hist[j].before, a \in Elems(hist[j].after) :
                /\ [a EXCEPT !.latency = hist[j].before[k].latency]
                       = hist[j].before[k]
                /\ SameTurns(hist[j].after, [hist[j].before EXCEPT ![k] = a])

(***************************************************************************)
(* C25  A user_speech event with text is dropped exactly when one of the   *)
(* three most recently created human turns has the same normalized text    *)
(* and a timestamp less than 2000 ms from the event's; otherwise exactly   *)
(* one human turn is appended.                                             *)
(***************************************************************************)
RepeatsRecentHuman(j) ==
    \E m \in LastCreated(j, "user", 3) :
        /\ Normalize(m.text) = Normalize(hist[j].u.text)
        /\ Abs(EffectiveTimestamp(j) - m.timestamp) < 2000

C25_DropIffRecentHuman ==
    \A j \in DOMAIN hist :
        hist[j].u.kind = "user_speech" =>
            IF RepeatsRecentHuman(j)
            THEN hist[j].after = hist[j].before
            ELSE Appended(j) /\ CreatedTurn(j).type = "user"

(***************************************************************************)
(* C26  After a render, a turn with text that is no placeholder (and that  *)
(* the conversation-id rule cannot touch) is missing from the presentation *)
(* exactly when one of the 10 turns accepted last before it has the same   *)
(* speaker, the same normalized text and a timestamp less than 3000 ms     *)
(* from its own.                                                           *)
(***************************************************************************)
\* the turns before messages[i] that the presentation shows, in collection order
AcceptedBefore(i) ==
    SelectSeq(SubSeq(messages, 1, i - 1),
              LAMBDA m : m \in Elems(sortedMessages))

LastAccepted(i, n) ==
    LET acc == AcceptedBefore(i)
    IN  SubSeq(acc, IF Len(acc) > n THEN Len(acc) - n + 1 ELSE 1, Len(acc))

NearDuplicateOf(m, a) ==
    /\ a.type = m.type
    /\ Normalize(a.text) = Normalize(m.text)
    /\ Abs(a.timestamp - m.timestamp) < 3000

Showable(m) ==
    /\ Trim(m.text) # <<>>
    /\ ~IsPlaceholder(m.text)

C26_LastTenCompared ==
    (~dirty /\ hist # <<>>) =>
        \A i \in DOMAIN messages :
            ( /\ Showable(messages[i])
              /\ (messages[i].type # "agent" \/ messages[i].conversationId = "") )
            => ( messages[i] \notin Elems(sortedMessages)
                   <=> \E a \in Elems(LastAccepted(i, 10)) :
                           NearDuplicateOf(messages[i], a) )

(***************************************************************************)
(* C27  After a render, an agent turn with a conversation id that is       *)
(* missing from the presentation without being a near-duplicate of a turn  *)
(* accepted before it has the normalized text of the agent turn accepted   *)
(* last for the same conversation id; and an agent turn whose text (no     *)
(* placeholder) differs from the text of every other turn is shown,        *)
(* whatever conversation id it shares.                                     *)
(***************************************************************************)
PairedAgent(m) == Showable(m) /\ m.type = "agent" /\ m.conversationId # ""

\* the agent turns with the conversation id of messages[i] accepted before it
AcceptedOfPair(i) ==
    SelectSeq(AcceptedBefore(i),
              LAMBDA a : a.type = "agent"
                         /\ a.conversationId = messages[i].conversationId)

DroppedByPairOnly(i) ==
    /\ PairedAgent(messages[i])
    /\ messages[i] \notin Elems(sortedMessages)
    /\ \A a \in Elems(AcceptedBefore(i)) : ~NearDuplicateOf(messages[i], a)

TextOfItsOwn(i) ==
    \A k \in DOMAIN messages :
        k # i => Normalize(messages[k].text) # Normalize(messages[i].text)

C27_PairRuleOnlyRepeats ==
    (~dirty /\ hist # <<>>) =>
        \A i \in DOMAIN messages :
            /\ DroppedByPairOnly(i) =>
                   /\ AcceptedOfPair(i) # <<>>
                   /\ Normalize(AcceptedOfPair(i)[Len(AcceptedOfPair(i))].text)
                          = Normalize(messages[i].text)
            /\ (PairedAgent(messages[i]) /\ TextOfItsOwn(i)) =>
                   messages[i] \in Elems(sortedMessages)

\* a render that dropped one agent turn by the pairing rule alone and showed
\* another of the same conversation id whose text is its own
C27_Witness ==
    /\ ~dirty /\ hist # <<>>
    /\ \E i, k \in DOMAIN messages :
          /\ DroppedByPairOnly(i)
          /\ k # i
          /\ PairedAgent(messages[k]) /\ TextOfItsOwn(k)
          /\ messages[k].conversationId = messages[i].conversationId
          /\ messages[k] \in Elems(sortedMessages)

(***************************************************************************)
(* C28  As stated: after a render, any two shown turns whose timestamps    *)
(* differ by 1000 ms or more are shown in ascending timestamp order,       *)
(* whoever spoke.                                                          *)
(***************************************************************************)
C28_FarApartByTime ==
    (~dirty /\ hist # <<>>) =>
        \A i, j \in DOMAIN sortedMessages :
            ( /\ i < j
              /\ Abs(sortedMessages[i].timestamp - sortedMessages[j].timestamp)
                     >= 1000 )
            => sortedMessages[i].timestamp < sortedMessages[j].timestamp

(***************************************************************************)
(* C28  After a render, any two shown turns whose timestamps differ by     *)
(* more than 1000 ms are shown in ascending timestamp order, and of a      *)
(* human and an agent turn whose timestamps differ by 1000 ms or less the  *)
(* human turn is shown first.                                              *)
(***************************************************************************)
C28_FarApartByTimeStrict ==
    (~dirty /\ hist # <<>>) =>
        \A i, j \in DOMAIN sortedMessages :
            i < j =>
                LET a == sortedMessages[i]
                    b == sortedMessages[j]
                IN  /\ Abs(a.timestamp - b.timestamp) > 1000
                           => a.timestamp < b.timestamp
                    /\ (Abs(a.timestamp - b.timestamp) <= 1000 /\ a.type # b.type)
                           => a.type = "user"

\* a render that shows a human turn before an agent turn exactly 1000 ms
\* older, and two turns more than 1000 ms apart
C28_Witness ==
    /\ ~dirty /\ hist # <<>>
    /\ \E i, j \in DOMAIN sortedMessages :
          /\ i < j
          /\ sortedMessages[i].type = "user" /\ sortedMessages[j].type = "agent"
          /\ sortedMessages[i].timestamp = sortedMessages[j].timestamp + 1000
    /\ \E i, j \in DOMAIN sortedMessages :
          /\ i < j
          /\ sortedMessages[j].timestamp > sortedMessages[i].timestamp + 1000

(***************************************************************************)
(* C29  After a render, two shown turns of the same speaker are in         *)
(* ascending timestamp order, and two of equal timestamp are in the order  *)
(* they have in the collection.                                            *)
(***************************************************************************)
\* where the turn stands in the collection
PositionOf(m) == CHOOSE i \in DOMAIN messages : messages[i] = m

C29_SameSpeakerStable ==
    (~dirty /\ hist # <<>>) =>
        \A i, j \in DOMAIN sortedMessages :
            (i < j /\ sortedMessages[i].type = sortedMessages[j].type) =>
                /\ sortedMessages[i].timestamp <= sortedMessages[j].timestamp
                /\ sortedMessages[i].timestamp = sortedMessages[j].timestamp
                       => PositionOf(sortedMessages[i]) < PositionOf(sortedMessages[j])

Ran == hist'[Len(hist')]

CreatesTurn(kind) ==
    /\ Len(hist') = Len(hist) + 1
    /\ Ran.u.kind = kind
    /\ Len(Ran.after) = Len(Ran.before) + 1

LastInsertedKey ==
    IF pipelineMetricsRef = <<>> THEN ""
    ELSE pipelineMetricsRef[Len(pipelineMetricsRef)].conversationId

C31_IdAtCreation ==
    [][ /\ CreatesTurn("user_speech") =>
               Ran.after[Len(Ran.after)].conversationId = LastInsertedKey
        /\ CreatesTurn("agent_reply") =>
               Ran.after[Len(Ran.after)].conversationId =
                   IF LastInsertedKey # "" THEN LastInsertedKey
                   ELSE Ran.u.data.conversation_id ]_vars

(***************************************************************************)
(* C32  Turns stay in creation order: after every update the turns that    *)
(* were in the collection stand at the positions they had, and a turn the  *)
(* update created stands after them.                                       *)
(***************************************************************************)
C32_CreationOrderKept ==
    \A j \in DOMAIN hist :
        /\ Len(hist[j].after) >= Len(hist[j].before)
        /\ \A p \in DOMAIN hist[j].before :
               hist[j].after[p].id = hist[j].before[p].id

(***************************************************************************)
(* C33  A turn that carries a conversation id keeps it: no update changes  *)
(* the conversation id of a turn that had one.  Turns are followed by      *)
(* their id through the update.                                            *)
(***************************************************************************)
C33_ConversationIdKept ==
    \A j \in DOMAIN hist :
        \A b \in Elems(hist[j].before), a \in Elems(hist[j].after) :
            (a.id = b.id /\ b.conversationId # "")
                => a.conversationId = b.conversationId

(***************************************************************************)
(* C34  No update changes the id or the speaker of a turn that is in the   *)
(* collection, the text of a human turn never changes, and the text of an  *)
(* agent turn changes in an agent_speech update only.  Turns are compared  *)
(* as collections of (id, speaker, text), whatever their position; a turn  *)
(* an update creates is appended and is not one of them.                   *)
(***************************************************************************)
Named(m) == [id |-> m.id, type |-> m.type, text |-> m.text]

NamedIn(s) == [i \in DOMAIN s |-> Named(s[i])]

\* the turns of s as (id, speaker, text), the text of agent turns left out
NamedButAgentText(s) ==
    [i \in DOMAIN s |->
        IF s[i].type = "agent" THEN [Named(s[i]) EXCEPT !.text = <<>>]
        ELSE Named(s[i])]

C34_IdSpeakerTextKept ==
    \A j \in DOMAIN hist :
        LET b == hist[j].before
            old == SubSeq(hist[j].after, 1, Len(b))
        IN  /\ Len(hist[j].after) >= Len(b)
            /\ SameTurns(NamedButAgentText(old), NamedButAgentText(b))
            /\ hist[j].u.kind # "agent_speech" =>
                   SameTurns(NamedIn(old), NamedIn(b))

\* an agent_speech update that changed the text of an agent turn while a human
\* turn was in the collection
C34_Witness ==
    \E j \in DOMAIN hist :
        /\ hist[j].u.kind = "agent_speech"
        /\ \E m \in Elems(hist[j].before) : m.type = "user"
        /\ \E b \in Elems(hist[j].before), a \in Elems(hist[j].after) :
              a.id = b.id /\ b.type = "agent" /\ a.text # b.text

(***************************************************************************)
(* C35  connect prevents parallel requests: a connect("env") call made     *)
(* while another connect("env") call is awaiting its token issues no token *)
(* request, and a connect(mode) call made while shouldConnect is true and  *)
(* the mode is already mode changes no state and issues no request.        *)
(***************************************************************************)
C35_NoParallelConnect ==
    \A k \in DOMAIN connectLog :
        connectLog[k].op = "connect" =>
            /\ (connectLog[k].mode = "env" /\ connectLog[k].awaiting > 0)
                   => connectLog[k].did # "fetching"
            /\ (connectLog[k].before.shouldConnect
                    /\ connectLog[k].before.mode = connectLog[k].mode)
                   => ( /\ connectLog[k].after = connectLog[k].before
                        /\ connectLog[k].did # "fetching" )

(***************************************************************************)
(* C36  After disconnect() with no connect() call started since,           *)
(* shouldConnect is false and wsUrl and token are empty, whatever an       *)
(* earlier connect() call does when its token arrives.                     *)
(***************************************************************************)
DisconnectedSince(d) ==
    /\ connectLog[d].op = "disconnect"
    /\ \A k \in (d + 1)..Len(connectLog) : connectLog[k].op # "connect"

C36_DisconnectIsFinal ==
    (\E d \in DOMAIN connectLog : DisconnectedSince(d)) =>
        /\ ~connectionDetails.shouldConnect
        /\ connectionDetails.wsUrl = ""
        /\ connectionDetails.token = ""

(***************************************************************************)
(* C37  A connect that fails (no server URL, token request rejected or not *)
(* ok, empty access token) leaves wsUrl "", token "", shouldConnect false, *)
(* mode "manual", and never sets shouldConnect; and whenever the mode is   *)
(* "env" and shouldConnect is true, wsUrl and token are not empty.         *)
(***************************************************************************)
C37_FailedConnectResets ==
    /\ \A k \in DOMAIN connectLog :
           connectLog[k].did = "failed" =>
               /\ connectLog[k].after = ResetConnection
               /\ ~connectLog[k].after.shouldConnect
    /\ (connectionDetails.mode = "env" /\ connectionDetails.shouldConnect)
           => (connectionDetails.wsUrl # "" /\ connectionDetails.token # "")

\* the submission is a start_agent job that names a room
IsStartAgentJob == job.request.jobType = "start_agent" /\ job.request.roomName # ""

\* neither the dispatch nor the worker fallback started the agent
BothFailed == job.dispatch = "failed" /\ job.worker # "ok"

\* C38: for a start_agent job with a roomName the endpoint answers 200 with
\* success true only when the dispatch was created or the worker fallback
\* succeeded; when both fail, the client's result has success false and the
\* playground reports the submission as failed
C38_StartAgentSuccessMeansStarted ==
    IsStartAgentJob =>
        /\ (job.response.status = 200 /\ job.response.success)
               => (job.dispatch = "created" \/ job.worker = "ok")
        /\ (BothFailed /\ job.pc \in {"returned", "reported"})
               => ~job.result.success
        /\ (BothFailed /\ job.pc = "reported") => job.report = "failed"

\* every rejected setMicrophoneEnabled left isMicEnabled as it was before
\* its toggle
RejectionRestores ==
    \A k \in DOMAIN micLog :
        micLog[k].op = "rejected" => micLog[k].after = micLog[k].before

\* the hook shows the participant's microphone state
MicInSync == isMicEnabled = participantMic

\* toggles go on for ever, or from some point on the hook is in sync
EventuallyInSync == ([]<><<toggleMicrophone>>_vars) \/ <>[]MicInSync

\* C39: a rejected setMicrophoneEnabled restores isMicEnabled to the value it
\* had before the toggle, and when no further toggle occurs isMicEnabled
\* eventually equals the participant's microphone state
C39_RevertAndSync == []RejectionRestores /\ EventuallyInSync

====
